---- MODULE Spec2Model ----
(***************************************************************************)
(* The session core of incognita-socket-server: the State Core (Server,   *)
(* User, Room) and the Dispatcher that owns it, handles one event at a    *)
(* time and fans the resulting Response out to per-user outbound queues.  *)
(***************************************************************************)
EXTENDS Integers, Sequences, FiniteSets, TLC

(* UserID and RoomID are u32 in the program; the model keeps the wrapping  *)
(* arithmetic of next_id with a narrower width.                            *)
IdBits == 2
IdModulus == 2 ^ IdBits
IDs == 0 .. (IdModulus - 1)

(* Server::max_connections, a command-line parameter of the program.       *)
MaxConnections == 3

(* An event is handled only while every outbound queue holds fewer         *)
(* messages than this (the queues of the program are unbounded).           *)
MaxQueue == 1

(* The free-text fields of the requests (data, msg, reason, payload).      *)
Texts == {"txt"}

(* The sequence number of Ping is a u32; the model takes the two ends of   *)
(* the range, as decimal numerals (the upper end is beyond TLC's integers). *)
PingArgs == {"0", "4294967295"}

VARIABLES
    server,     \* Dispatcher::server : the State Core
    conns,      \* Dispatcher::conns : UserID -> messages on the outbound queue
    sessions,   \* the users whose Session task was spawned and has not ended
    pc,         \* where the loop of Dispatcher::run stands
    running,    \* whether the loop of Dispatcher::run is still running
    refused,    \* the connection this iteration refused: its lines, its end
    event,      \* the event this iteration of Dispatcher::run dequeued
    outcome,    \* what the State Core returned for that event
    before,     \* the Server, queues and Sessions as the iteration began
    in_,        \* Dispatcher::in_ : the events on the inbound queue
    accepting,  \* whether the accept loop of start_server is still running
    forwarded,  \* UserID -> the requests its Session has forwarded, in line order
    arrived,    \* every event sent to the inbound queue, in order of arrival
    applied,    \* every event Dispatcher::run has handled, in order
    sent,       \* UserID -> the messages the Dispatcher has sent to its queue
    written,    \* UserID -> the messages its Session has written to the socket
    task,       \* UserID -> the task of its Session: position, socket, lines read
    joined,     \* the members and the joiners of a room, in the order they came
    dropped     \* UserID -> what the queue of its last holder held when removed

(* The part of the state only the second specification, SpecIO, moves *)
ioVars == <<in_, accepting, forwarded, arrived, applied, sent, written>>

(* The part only the session and the room specification move *)
auxVars == <<task, joined, dropped>>

vars == <<server, conns, sessions, pc, running, refused, event, outcome, before,
          in_, accepting, forwarded, arrived, applied, sent, written, task, joined, dropped>>

-----------------------------------------------------------------------------
(* models.rs : UserState *)
Nowhere == <<"Nowhere">>
RoomOwner(room_id) == <<"RoomOwner", room_id>>
InRoom(room_id) == <<"InRoom", room_id>>
RequestedJoin(room_id) == <<"RequestedJoin", room_id>>

(* response.rs : Message *)
Pong(sequence_number) == <<"Pong", sequence_number>>
Welcome(user_id) == <<"Welcome", user_id>>
ListRoomsMsg(listed) == <<"ListRooms", listed>>
RoomCreated(room_id) == <<"RoomCreated", room_id>>
RoomJoined(room_id) == <<"RoomJoined", room_id>>
RoomClosed(room_id) == <<"RoomClosed", room_id>>
RoomRejected(room_id, reason) == <<"RoomRejected", room_id, reason>>
JoinRequested(room_id, user_id, msg) == <<"JoinRequested", room_id, user_id, msg>>
PlayerLeft(room_id, user_id) == <<"PlayerLeft", room_id, user_id>>
ReceivedFrom(room_id, user_id, payload) == <<"ReceivedFrom", room_id, user_id, payload>>
ReceivedBroadcast(room_id, payload) == <<"ReceivedBroadcast", room_id, payload>>
ReceivedIndividual(room_id, payload) == <<"ReceivedIndividual", room_id, payload>>
ErrorMsg(e) == <<"Error", e>>
SERVER_FULL == ErrorMsg("ServerFull")

(* Option and Result *)
None == <<>>
Some(v) == <<v>>
Unit == <<>>
Ok(v) == [ok |-> TRUE, val |-> v, err |-> "-"]
Err(e) == [ok |-> FALSE, val |-> Unit, err |-> e]

(* response.rs : Response and its constructors *)
ResponseEmpty == [returns |-> None, sends |-> <<>>]
ResponseReturns(message) == [returns |-> Some(message), sends |-> <<>>]
ResponseError(e) == ResponseReturns(ErrorMsg(e))
ResponseSendsAll(messages) == [returns |-> None, sends |-> messages]
ResponseSends(user_id, message) == ResponseSendsAll(<<(<<user_id, message>>)>>)

(* impl From<Result> for Response *)
ResponseFrom(r) == IF r.ok THEN r.val ELSE ResponseError(r.err)

-----------------------------------------------------------------------------
(* Maps (HashMap) are functions whose domain is the set of keys. *)
MapRemove(map, key) == [k \in (DOMAIN map) \ {key} |-> map[k]]
MapInsert(map, key, value) ==
    [k \in (DOMAIN map) \cup {key} |-> IF k = key THEN value ELSE map[k]]

NewUser(id) == [id |-> id, state |-> Nowhere]
NewRoom(id, owner_id, data) ==
    [id |-> id, owner_id |-> owner_id, data |-> data,
     members |-> <<>>, join_requests |-> <<>>]

(* models.rs : index_of; 0 stands for the error, positions count from 1 *)
index_of(arr, v) ==
    IF \E i \in 1 .. Len(arr) : arr[i] = v
    THEN CHOOSE i \in 1 .. Len(arr) :
             arr[i] = v /\ \A j \in 1 .. (i - 1) : arr[j] # v
    ELSE 0

(* Vec::swap_remove : the last element takes the place of the removed one *)
swap_remove(vec, index) ==
    [i \in 1 .. (Len(vec) - 1) |-> IF i = index THEN vec[Len(vec)] ELSE vec[i]]

Contains(vec, v) == \E i \in 1 .. Len(vec) : vec[i] = v

(* next_id without the test for a key that is taken *)
next_id_unchecked(last_id, keys) == (last_id + 1) % IdModulus

(* next_id as the least free key, whatever the last one was *)
next_id_lowest(last_id, keys) ==
    CHOOSE id \in IDs \ keys : \A other \in IDs \ keys : id <= other

(* server.rs : next_id, the loop of wrapping_add(1) until a free key *)
RECURSIVE next_id(_, _)
next_id(last_id, keys) ==
    LET id == (last_id + 1) % IdModulus
    IN  IF id \notin keys THEN id ELSE next_id(id, keys)

-----------------------------------------------------------------------------
(* models.rs : User and Room methods.  A method that takes &mut arguments  *)
(* returns them as it left them, together with its Result.                 *)

(* expect_nowhere with one error for every state but Nowhere *)
expect_nowhere_one_error(user) ==
    IF user.state[1] # "Nowhere" THEN Err("AlreadyInARoom") ELSE Ok(Unit)

expect_nowhere(user) ==
    IF user.state[1] \in {"RoomOwner", "InRoom"} THEN Err("AlreadyInARoom")
    ELSE IF user.state[1] = "RequestedJoin" THEN Err("AlreadyRequestedJoin")
    ELSE Ok(Unit)

try_create_room(user, room_id, data) ==
    LET e == expect_nowhere(user)
    IN  IF ~e.ok THEN [user |-> user, result |-> e]
        ELSE [user |-> [user EXCEPT !.state = RoomOwner(room_id)],
              result |-> Ok(NewRoom(room_id, user.id, data))]

(* try_join_room that records the request before it looks at the state *)
try_join_room_pushes_first(user, room) ==
    LET e == expect_nowhere(user)
        pushed == [room EXCEPT !.join_requests = Append(@, user.id)]
    IN  IF ~e.ok THEN [user |-> user, room |-> pushed, result |-> e]
        ELSE [user |-> [user EXCEPT !.state = RequestedJoin(room.id)],
              room |-> pushed, result |-> Ok(Unit)]

try_join_room(user, room) ==
    LET e == expect_nowhere(user)
    IN  IF ~e.ok THEN [user |-> user, room |-> room, result |-> e]
        ELSE [user |-> [user EXCEPT !.state = RequestedJoin(room.id)],
              room |-> [room EXCEPT !.join_requests = Append(@, user.id)],
              result |-> Ok(Unit)]

(* expect_owner that lets the members pass too *)
expect_owner_or_member(room, user_id) ==
    IF room.owner_id = user_id \/ Contains(room.members, user_id)
    THEN Ok(Unit) ELSE Err("NotRoomOwner")

expect_owner(room, user_id) ==
    IF room.owner_id = user_id THEN Ok(Unit) ELSE Err("NotRoomOwner")

expect_member(room, user_id) ==
    IF Contains(room.members, user_id) THEN Ok(Unit) ELSE Err("NoSuchUser")

(* cancel_join_request that leaves the user's state as it was *)
cancel_join_request_keeps_state(room, user) ==
    LET index == index_of(room.join_requests, user.id)
    IN  IF index = 0
        THEN [room |-> room, user |-> user, result |-> Err("NoSuchJoinRequest")]
        ELSE [room |-> [room EXCEPT !.join_requests = swap_remove(@, index)],
              user |-> user, result |-> Ok(Unit)]

cancel_join_request(room, user) ==
    LET index == index_of(room.join_requests, user.id)
    IN  IF index = 0
        THEN [room |-> room, user |-> user, result |-> Err("NoSuchJoinRequest")]
        ELSE [room |-> [room EXCEPT !.join_requests = swap_remove(@, index)],
              user |-> [user EXCEPT !.state = Nowhere],
              result |-> Ok(Unit)]

(* accept_join_request that does not take the user off join_requests *)
accept_join_request_keeps_request(room, user) ==
    IF index_of(room.join_requests, user.id) = 0
    THEN [room |-> room, user |-> user, result |-> Err("NoSuchJoinRequest")]
    ELSE [room |-> [room EXCEPT !.members = Append(@, user.id)],
          user |-> [user EXCEPT !.state = InRoom(room.id)],
          result |-> Ok(Unit)]

accept_join_request(room, user) ==
    LET c == cancel_join_request(room, user)
    IN  IF ~c.result.ok THEN c
        ELSE [room |-> [c.room EXCEPT !.members = Append(@, user.id)],
              user |-> [c.user EXCEPT !.state = InRoom(room.id)],
              result |-> Ok(Unit)]

(* Room::remove_user that finds the member and leaves it in place *)
room_remove_user_keeps_member(room, user_id) ==
    IF user_id = room.owner_id THEN [room |-> room, result |-> Err("IsRoomOwner")]
    ELSE IF index_of(room.members, user_id) = 0
    THEN [room |-> room, result |-> Err("NoSuchUser")]
    ELSE [room |-> room, result |-> Ok(Unit)]

room_remove_user(room, user_id) ==
    IF user_id = room.owner_id THEN [room |-> room, result |-> Err("IsRoomOwner")]
    ELSE LET index == index_of(room.members, user_id)
         IN  IF index = 0 THEN [room |-> room, result |-> Err("NoSuchUser")]
             ELSE [room |-> [room EXCEPT !.members = swap_remove(@, index)],
                   result |-> Ok(Unit)]

(* leave_room that takes a member out of the room and keeps its state *)
user_leave_room_keeps_state(user, room) ==
    CASE user.state[1] = "RoomOwner" ->
            [user |-> user, room |-> room, result |-> Err("IsRoomOwner")]
      [] user.state[1] = "InRoom" ->
            IF user.state[2] = room.id
            THEN LET r == room_remove_user(room, user.id)
                 IN  [user |-> user, room |-> r.room, result |-> r.result]
            ELSE [user |-> user, room |-> room, result |-> Err("NotInThatRoom")]
      [] user.state[1] = "RequestedJoin" ->
            IF user.state[2] = room.id
            THEN cancel_join_request(room, user)
            ELSE [user |-> user, room |-> room, result |-> Err("NotInThatRoom")]
      [] OTHER ->
            [user |-> user, room |-> room, result |-> Err("NotInThatRoom")]

user_leave_room(user, room) ==
    CASE user.state[1] = "RoomOwner" ->
            [user |-> user, room |-> room, result |-> Err("IsRoomOwner")]
      [] user.state[1] = "InRoom" ->
            IF user.state[2] = room.id
            THEN LET r == room_remove_user(room, user.id)
                 IN  [user |-> [user EXCEPT !.state = Nowhere],
                      room |-> r.room, result |-> r.result]
            ELSE [user |-> user, room |-> room, result |-> Err("NotInThatRoom")]
      [] user.state[1] = "RequestedJoin" ->
            IF user.state[2] = room.id
            THEN cancel_join_request(room, user)
            ELSE [user |-> user, room |-> room, result |-> Err("NotInThatRoom")]
      [] OTHER ->
            [user |-> user, room |-> room, result |-> Err("NotInThatRoom")]

-----------------------------------------------------------------------------
(* server.rs : Server.  An operation takes the Server value s and returns  *)
(* the Server as the call left it, together with what the call returned.   *)

NewServer ==
    [last_user_id |-> 0, users |-> <<>>, last_room_id |-> 0, rooms |-> <<>>]

(* the loop of close_room without the reset of the users' states *)
RECURSIVE close_room_loop_keeps_state(_, _, _, _)
close_room_loop_keeps_state(users, all_users, room_id, messages) ==
    IF all_users = <<>>
    THEN [users |-> users, result |-> Ok(ResponseSendsAll(messages))]
    ELSE LET u_id == Head(all_users)
         IN  IF u_id \notin DOMAIN users
             THEN [users |-> users, result |-> Err("NoSuchUser")]
             ELSE close_room_loop_keeps_state(users, Tail(all_users), room_id,
                      Append(messages, <<u_id, RoomClosed(room_id)>>))

RECURSIVE close_room_loop(_, _, _, _)
close_room_loop(users, all_users, room_id, messages) ==
    IF all_users = <<>>
    THEN [users |-> users, result |-> Ok(ResponseSendsAll(messages))]
    ELSE LET u_id == Head(all_users)
         IN  IF u_id \notin DOMAIN users
             THEN [users |-> users, result |-> Err("NoSuchUser")]
             ELSE close_room_loop([users EXCEPT ![u_id].state = Nowhere],
                                  Tail(all_users), room_id,
                                  Append(messages, <<u_id, RoomClosed(room_id)>>))

(* close_room that forgets the pending join requests *)
all_users_members_only(room) == room.members

(* the users close_room walks through: the members, then the requests *)
all_users_of(room) == room.members \o room.join_requests

close_room(s, room_id) ==
    IF room_id \notin DOMAIN s.rooms THEN [server |-> s, result |-> Err("NoSuchRoom")]
    ELSE LET room == s.rooms[room_id]
             all_users == all_users_of(room)
             users1 == IF room.owner_id \in DOMAIN s.users
                       THEN [s.users EXCEPT ![room.owner_id].state = Nowhere]
                       ELSE s.users
             l == close_room_loop(users1, all_users, room_id, <<>>)
         IN  [server |-> [s EXCEPT !.rooms = MapRemove(@, room_id), !.users = l.users],
              result |-> l.result]

(* add_user with > for >= in the test of the connection limit *)
add_user_off_by_one(s) ==
    IF Cardinality(DOMAIN s.users) > MaxConnections
    THEN [server |-> s, result |-> None]
    ELSE LET user_id == next_id(s.last_user_id, DOMAIN s.users)
         IN  [server |-> [s EXCEPT !.users = MapInsert(@, user_id, NewUser(user_id)),
                                   !.last_user_id = user_id],
              result |-> Some(user_id)]

add_user(s) ==
    IF Cardinality(DOMAIN s.users) >= MaxConnections
    THEN [server |-> s, result |-> None]
    ELSE LET user_id == next_id(s.last_user_id, DOMAIN s.users)
         IN  [server |-> [s EXCEPT !.users = MapInsert(@, user_id, NewUser(user_id)),
                                   !.last_user_id = user_id],
              result |-> Some(user_id)]

(* remove_user that tells the user who left, not the owner of its room *)
remove_user_tells_leaver(s, user_id) ==
    IF user_id \notin DOMAIN s.users THEN [server |-> s, result |-> Err("NoSuchUser")]
    ELSE LET user == s.users[user_id]
             s1 == [s EXCEPT !.users = MapRemove(@, user_id)]
             room_id == user.state[2]
         IN  CASE user.state[1] = "RoomOwner" -> close_room(s1, room_id)
               [] user.state[1] = "InRoom" ->
                    IF room_id \notin DOMAIN s1.rooms
                    THEN [server |-> s1, result |-> Err("NoSuchRoom")]
                    ELSE LET r == room_remove_user(s1.rooms[room_id], user_id)
                         IN  [server |-> [s1 EXCEPT !.rooms[room_id] = r.room],
                              result |-> IF ~r.result.ok THEN r.result
                                         ELSE Ok(ResponseSends(user_id,
                                                     PlayerLeft(room_id, user_id)))]
               [] user.state[1] = "RequestedJoin" ->
                    IF room_id \notin DOMAIN s1.rooms
                    THEN [server |-> s1, result |-> Err("NoSuchRoom")]
                    ELSE LET c == cancel_join_request(s1.rooms[room_id], user)
                         IN  [server |-> [s1 EXCEPT !.rooms[room_id] = c.room],
                              result |-> IF ~c.result.ok THEN c.result
                                         ELSE Ok(ResponseSends(user_id,
                                                     PlayerLeft(room_id, user_id)))]
               [] OTHER -> [server |-> s1, result |-> Ok(ResponseEmpty)]

remove_user(s, user_id) ==
    IF user_id \notin DOMAIN s.users THEN [server |-> s, result |-> Err("NoSuchUser")]
    ELSE LET user == s.users[user_id]
             s1 == [s EXCEPT !.users = MapRemove(@, user_id)]
             room_id == user.state[2]
         IN  CASE user.state[1] = "RoomOwner" -> close_room(s1, room_id)
               [] user.state[1] = "InRoom" ->
                    IF room_id \notin DOMAIN s1.rooms
                    THEN [server |-> s1, result |-> Err("NoSuchRoom")]
                    ELSE LET r == room_remove_user(s1.rooms[room_id], user_id)
                         IN  [server |-> [s1 EXCEPT !.rooms[room_id] = r.room],
                              result |-> IF ~r.result.ok THEN r.result
                                         ELSE Ok(ResponseSends(r.room.owner_id,
                                                     PlayerLeft(room_id, user_id)))]
               [] user.state[1] = "RequestedJoin" ->
                    IF room_id \notin DOMAIN s1.rooms
                    THEN [server |-> s1, result |-> Err("NoSuchRoom")]
                    ELSE LET c == cancel_join_request(s1.rooms[room_id], user)
                         IN  [server |-> [s1 EXCEPT !.rooms[room_id] = c.room],
                              result |-> IF ~c.result.ok THEN c.result
                                         ELSE Ok(ResponseSends(c.room.owner_id,
                                                     PlayerLeft(room_id, user_id)))]
               [] OTHER -> [server |-> s1, result |-> Ok(ResponseEmpty)]

(* order is the iteration order of HashMap::values, which the map chooses *)
list_rooms(s, order) ==
    ResponseReturns(ListRoomsMsg(
        [i \in 1 .. Len(order) |-> <<s.rooms[order[i]].id, s.rooms[order[i]].data>>]))

create_room(s, user_id, data) ==
    LET room_id == next_id(s.last_room_id, DOMAIN s.rooms)
    IN  IF user_id \notin DOMAIN s.users
        THEN [server |-> s, result |-> Err("NoSuchUser")]
        ELSE LET t == try_create_room(s.users[user_id], room_id, data)
             IN  IF ~t.result.ok THEN [server |-> s, result |-> t.result]
                 ELSE [server |-> [s EXCEPT !.users[user_id] = t.user,
                                            !.rooms = MapInsert(@, room_id, t.result.val),
                                            !.last_room_id = room_id],
                       result |-> Ok(ResponseReturns(RoomCreated(room_id)))]

(* get_user_room_mut : the user is looked up first, then the room *)
get_user_room_mut(s, user_id, room_id) ==
    IF user_id \notin DOMAIN s.users THEN Err("NoSuchUser")
    ELSE IF room_id \notin DOMAIN s.rooms THEN Err("NoSuchRoom")
    ELSE Ok(Unit)

(* ask_join that answers the requester instead of telling the owner *)
ask_join_tells_requester(s, user_id, room_id, msg) ==
    LET g == get_user_room_mut(s, user_id, room_id)
    IN  IF ~g.ok THEN [server |-> s, result |-> g]
        ELSE LET t == try_join_room(s.users[user_id], s.rooms[room_id])
             IN  [server |-> [s EXCEPT !.users[user_id] = t.user,
                                       !.rooms[room_id] = t.room],
                  result |-> IF ~t.result.ok THEN t.result
                             ELSE Ok(ResponseSends(t.user.id,
                                         JoinRequested(room_id, t.user.id, msg)))]

ask_join(s, user_id, room_id, msg) ==
    LET g == get_user_room_mut(s, user_id, room_id)
    IN  IF ~g.ok THEN [server |-> s, result |-> g]
        ELSE LET t == try_join_room(s.users[user_id], s.rooms[room_id])
             IN  [server |-> [s EXCEPT !.users[user_id] = t.user,
                                       !.rooms[room_id] = t.room],
                  result |-> IF ~t.result.ok THEN t.result
                             ELSE Ok(ResponseSends(t.room.owner_id,
                                         JoinRequested(room_id, t.user.id, msg)))]

accept_join(s, user_id, room_id, other_id) ==
    LET g == get_user_room_mut(s, other_id, room_id)
    IN  IF ~g.ok THEN [server |-> s, result |-> g]
        ELSE LET e == expect_owner(s.rooms[room_id], user_id)
                 a == accept_join_request(s.rooms[room_id], s.users[other_id])
             IN  IF ~e.ok THEN [server |-> s, result |-> e]
                 ELSE [server |-> [s EXCEPT !.users[other_id] = a.user,
                                            !.rooms[room_id] = a.room],
                       result |-> IF ~a.result.ok THEN a.result
                                  ELSE Ok(ResponseSends(other_id, RoomJoined(room_id)))]

(* reject_join that tells the owner instead of the rejected user *)
reject_join_tells_owner(s, user_id, room_id, other_id, reason) ==
    LET g == get_user_room_mut(s, other_id, room_id)
    IN  IF ~g.ok THEN [server |-> s, result |-> g]
        ELSE LET e == expect_owner(s.rooms[room_id], user_id)
                 c == cancel_join_request(s.rooms[room_id], s.users[other_id])
             IN  IF ~e.ok THEN [server |-> s, result |-> e]
                 ELSE [server |-> [s EXCEPT !.users[other_id] = c.user,
                                            !.rooms[room_id] = c.room],
                       result |-> IF ~c.result.ok THEN c.result
                                  ELSE Ok(ResponseSends(user_id,
                                              RoomRejected(room_id, reason)))]

reject_join(s, user_id, room_id, other_id, reason) ==
    LET g == get_user_room_mut(s, other_id, room_id)
    IN  IF ~g.ok THEN [server |-> s, result |-> g]
        ELSE LET e == expect_owner(s.rooms[room_id], user_id)
                 c == cancel_join_request(s.rooms[room_id], s.users[other_id])
             IN  IF ~e.ok THEN [server |-> s, result |-> e]
                 ELSE [server |-> [s EXCEPT !.users[other_id] = c.user,
                                            !.rooms[room_id] = c.room],
                       result |-> IF ~c.result.ok THEN c.result
                                  ELSE Ok(ResponseSends(other_id,
                                              RoomRejected(room_id, reason)))]

leave_room(s, user_id, room_id) ==
    LET g == get_user_room_mut(s, user_id, room_id)
    IN  IF ~g.ok THEN [server |-> s, result |-> g]
        ELSE IF s.rooms[room_id].owner_id = s.users[user_id].id
        THEN close_room(s, room_id)
        ELSE LET l == user_leave_room(s.users[user_id], s.rooms[room_id])
             IN  [server |-> [s EXCEPT !.users[user_id] = l.user,
                                       !.rooms[room_id] = l.room],
                  result |-> IF ~l.result.ok THEN l.result
                             ELSE Ok(ResponseSends(l.room.owner_id,
                                         PlayerLeft(room_id, l.user.id)))]

(* the members of vec other than skip, in order; skip = -1 keeps them all *)
RECURSIVE broadcast(_, _, _, _)
broadcast(members, skip, room_id, payload) ==
    IF members = <<>> THEN <<>>
    ELSE IF Head(members) = skip THEN broadcast(Tail(members), skip, room_id, payload)
    ELSE <<(<<Head(members), ReceivedBroadcast(room_id, payload)>>)>>
         \o broadcast(Tail(members), skip, room_id, payload)

(* send whose broadcast reaches the pending joiners too *)
send_includes_joiners(s, from_user_id, room_id, payload) ==
    IF room_id \notin DOMAIN s.rooms THEN [server |-> s, result |-> Err("NoSuchRoom")]
    ELSE LET room == s.rooms[room_id]
         IN  [server |-> s,
              result |-> Ok(IF from_user_id = room.owner_id
                            THEN ResponseSendsAll(
                                     broadcast(room.members \o room.join_requests,
                                               -1, room_id, payload))
                            ELSE ResponseSends(room.owner_id,
                                     ReceivedFrom(room_id, from_user_id, payload)))]

send(s, from_user_id, room_id, payload) ==
    IF room_id \notin DOMAIN s.rooms THEN [server |-> s, result |-> Err("NoSuchRoom")]
    ELSE LET room == s.rooms[room_id]
         IN  [server |-> s,
              result |-> Ok(IF from_user_id = room.owner_id
                            THEN ResponseSendsAll(
                                     broadcast(room.members, -1, room_id, payload))
                            ELSE ResponseSends(room.owner_id,
                                     ReceivedFrom(room_id, from_user_id, payload)))]

send_to(s, from_user_id, room_id, to_user_id, payload) ==
    IF room_id \notin DOMAIN s.rooms THEN [server |-> s, result |-> Err("NoSuchRoom")]
    ELSE LET room == s.rooms[room_id]
             o == expect_owner(room, from_user_id)
             m == expect_member(room, to_user_id)
         IN  [server |-> s,
              result |-> IF ~o.ok THEN o ELSE IF ~m.ok THEN m
                         ELSE Ok(ResponseSends(to_user_id,
                                     ReceivedIndividual(room_id, payload)))]

(* echo_from that sends the broadcast back to from_user_id as well *)
echo_from_includes_sender(s, user_id, room_id, from_user_id, payload) ==
    IF room_id \notin DOMAIN s.rooms THEN [server |-> s, result |-> Err("NoSuchRoom")]
    ELSE LET room == s.rooms[room_id]
             o == expect_owner(room, user_id)
             m == expect_member(room, from_user_id)
         IN  [server |-> s,
              result |-> IF ~o.ok THEN o ELSE IF ~m.ok THEN m
                         ELSE Ok(ResponseSendsAll(
                                     broadcast(room.members, -1, room_id, payload)))]

echo_from(s, user_id, room_id, from_user_id, payload) ==
    IF room_id \notin DOMAIN s.rooms THEN [server |-> s, result |-> Err("NoSuchRoom")]
    ELSE LET room == s.rooms[room_id]
             o == expect_owner(room, user_id)
             m == expect_member(room, from_user_id)
         IN  [server |-> s,
              result |-> IF ~o.ok THEN o ELSE IF ~m.ok THEN m
                         ELSE Ok(ResponseSendsAll(
                                     broadcast(room.members, from_user_id,
                                               room_id, payload)))]

(* request.rs : Request, with room ids from rs and user ids from us.       *)
(* SetOwner, for which Server::handle_request has no arm either, is left   *)
(* out.                                                                    *)
Requests(rs, us) ==
    {<<"ListRooms">>, <<"Quit">>}
    \cup {<<"Ping", n>> : n \in PingArgs}
    \cup {<<"CreateRoom", data>> : data \in Texts}
    \cup {<<"AskJoinRoom", r, msg>> : r \in rs, msg \in Texts}
    \cup {<<"AcceptJoinRoom", r, o>> : r \in rs, o \in us}
    \cup {<<"RejectJoinRoom", r, o, why>> : r \in rs, o \in us, why \in Texts}
    \cup {<<"LeaveRoom", r>> : r \in rs}
    \cup {<<"Send", r, p>> : r \in rs, p \in Texts}
    \cup {<<"SendTo", r, o, p>> : r \in rs, o \in us, p \in Texts}
    \cup {<<"EchoFrom", r, o, p>> : r \in rs, o \in us, p \in Texts}

(* The Result of the Server method the arm of handle_request calls.  The   *)
(* match has no arm for Request::Ping: no Server method is called, nothing *)
(* in the program builds a Message::Pong, and the request gets the empty   *)
(* Response.                                                               *)
request_result(s, user_id, request, order) ==
    CASE request[1] = "ListRooms" -> [server |-> s, result |-> Ok(list_rooms(s, order))]
      [] request[1] = "CreateRoom" -> create_room(s, user_id, request[2])
      [] request[1] = "AskJoinRoom" -> ask_join(s, user_id, request[2], request[3])
      [] request[1] = "AcceptJoinRoom" -> accept_join(s, user_id, request[2], request[3])
      [] request[1] = "RejectJoinRoom" ->
            reject_join(s, user_id, request[2], request[3], request[4])
      [] request[1] = "LeaveRoom" -> leave_room(s, user_id, request[2])
      [] request[1] = "Send" -> send(s, user_id, request[2], request[3])
      [] request[1] = "SendTo" -> send_to(s, user_id, request[2], request[3], request[4])
      [] request[1] = "EchoFrom" ->
            echo_from(s, user_id, request[2], request[3], request[4])
      [] request[1] = "Quit" -> [server |-> s, result |-> Ok(ResponseEmpty)]
      [] OTHER -> [server |-> s, result |-> Ok(ResponseEmpty)]

handle_request(s, user_id, request, order) ==
    LET r == request_result(s, user_id, request, order)
    IN  [server |-> r.server, response |-> ResponseFrom(r.result)]

-----------------------------------------------------------------------------
(* dispatch.rs : Dispatcher *)

(* The orders in which a HashMap with these keys can be iterated *)
RECURSIVE Orders(_)
Orders(keys) ==
    IF keys = {} THEN {<<>>}
    ELSE UNION {{<<k>> \o rest : rest \in Orders(keys \ {k})} : k \in keys}

(* Dispatcher::send that puts the message at the front of the queue *)
dispatcher_send_front(queues, user_id, msg) ==
    IF user_id \in DOMAIN queues
    THEN [queues EXCEPT ![user_id] = <<msg>> \o @]
    ELSE queues

(* Dispatcher::send : a message for a user without a queue is dropped *)
dispatcher_send(queues, user_id, msg) ==
    IF user_id \in DOMAIN queues
    THEN [queues EXCEPT ![user_id] = Append(@, msg)]
    ELSE queues

RECURSIVE dispatch_sends(_, _)
dispatch_sends(queues, sends) ==
    IF sends = <<>> THEN queues
    ELSE dispatch_sends(dispatcher_send(queues, Head(sends)[1], Head(sends)[2]),
                        Tail(sends))

dispatch_response(queues, user_id, response) ==
    LET q1 == IF response.returns # None
              THEN dispatcher_send(queues, user_id, response.returns[1])
              ELSE queues
    IN  dispatch_sends(q1, response.sends)

(* add_user that makes no outbound queue for the new user *)
dispatcher_add_user_no_queue(s, queues) ==
    LET a == add_user(s)
    IN  [server |-> a.server, result |-> a.result, conns |-> queues]

(* Dispatcher::add_user *)
dispatcher_add_user(s, queues) ==
    LET a == add_user(s)
    IN  [server |-> a.server, result |-> a.result,
         conns |-> IF a.result = None THEN queues
                   ELSE MapInsert(queues, a.result[1], <<>>)]

(* remove_user that leaves the outbound queue of the user in the map *)
dispatcher_remove_user_keeps_queue(s, queues, user_id) ==
    LET r == remove_user(s, user_id)
    IN  [server |-> r.server, result |-> r.result, conns |-> queues]

(* Dispatcher::remove_user *)
dispatcher_remove_user(s, queues, user_id) ==
    LET r == remove_user(s, user_id)
    IN  [server |-> r.server, result |-> r.result,
         conns |-> IF r.result.ok THEN MapRemove(queues, user_id) ELSE queues]

(* The else branch of the Event::Connected arm: one line is written to    *)
(* the connection, which is dropped, and so closed, as the arm ends.       *)
NoConn == [lines |-> <<>>, closed |-> FALSE]
(* the refusal without the line *)
refuse_connection_silent == [lines |-> <<>>, closed |-> TRUE]
refuse_connection == [lines |-> <<SERVER_FULL>>, closed |-> TRUE]

Snapshot(s, queues, live) == [server |-> s, conns |-> queues, sessions |-> live]
NoSnapshot == Snapshot(NewServer, <<>>, {})

QueuesBelowBound == \A u \in DOMAIN conns : Len(conns[u]) < MaxQueue

(* The identifiers a request can name: those the Server's state mentions,  *)
(* and one it does not mention (the least), which stands for all of them.  *)
WithOneOther(mentioned) ==
    mentioned \cup
    (IF IDs \subseteq mentioned THEN {}
     ELSE {CHOOSE id \in IDs \ mentioned : \A o \in IDs \ mentioned : id <= o})

Range(vec) == {vec[i] : i \in 1 .. Len(vec)}

UserArgs(s) ==
    WithOneOther(DOMAIN s.users
                 \cup {s.rooms[r].owner_id : r \in DOMAIN s.rooms}
                 \cup UNION {Range(s.rooms[r].members) : r \in DOMAIN s.rooms}
                 \cup UNION {Range(s.rooms[r].join_requests) : r \in DOMAIN s.rooms})

RoomArgs(s) ==
    WithOneOther(DOMAIN s.rooms
                 \cup {s.users[u].state[2] :
                          u \in {v \in DOMAIN s.users : s.users[v].state # Nowhere}})

RequestsAt(s) == Requests(RoomArgs(s), UserArgs(s))

NobodyJoined == [members |-> <<>>, join_requests |-> <<>>]

Init ==
    /\ server = NewServer
    /\ conns = <<>>
    /\ sessions = {}
    /\ pc = "recv"
    /\ running = TRUE
    /\ refused = NoConn
    /\ event = <<"None">>
    /\ outcome = <<>>
    /\ before = NoSnapshot
    /\ in_ = <<>>
    /\ accepting = TRUE
    /\ forwarded = <<>>
    /\ arrived = <<>>
    /\ applied = <<>>
    /\ sent = <<>>
    /\ written = <<>>
    /\ task = <<>>
    /\ joined = NobodyJoined
    /\ dropped = <<>>

(* Event::Connected : the accept loop forwarded a new connection; a       *)
(* Session is spawned for it unless the Server is full.                    *)
Connected ==
    /\ LET a == dispatcher_add_user(server, conns)
       IN  /\ server' = a.server
           /\ conns' = a.conns
           /\ sessions' = IF a.result = None THEN sessions
                          ELSE sessions \cup {a.result[1]}
           /\ refused' = IF a.result = None THEN refuse_connection ELSE NoConn
           /\ outcome' = a.result
    /\ event' = <<"Connected">>
    /\ pc' = "handled"
    /\ UNCHANGED running

(* Event::Request : a line of a live Session, parsed and forwarded.  When  *)
(* every RoomID is taken the loop of next_id never ends and create_room    *)
(* does not return.                                                        *)
HandleRequest(user_id, request) ==
    /\ request[1] = "CreateRoom" => DOMAIN server.rooms # IDs
    /\ \E order \in Orders(IF request[1] = "ListRooms"
                           THEN DOMAIN server.rooms ELSE {}) :
          LET h == handle_request(server, user_id, request, order)
          IN  /\ server' = h.server
              /\ conns' = dispatch_response(conns, user_id, h.response)
              /\ outcome' = h.response
    /\ event' = <<"Request", user_id, request>>
    /\ pc' = "handled"
    /\ UNCHANGED <<sessions, running, refused>>

(* Event::Disconnected : the Session of user_id has ended and this is the *)
(* last event it sent.  An Err of remove_user leaves the loop through the  *)
(* ? operator.                                                             *)
Disconnected(user_id) ==
    /\ sessions' = sessions \ {user_id}
    /\ LET r == dispatcher_remove_user(server, conns, user_id)
       IN  /\ server' = r.server
           /\ conns' = r.conns
           /\ running' = r.result.ok
           /\ outcome' = r.result
    /\ event' = <<"Disconnected", user_id>>
    /\ pc' = "handled"
    /\ UNCHANGED refused

(* The end of an iteration of the loop of Dispatcher::run: the event, the  *)
(* response and the refused connection are dropped.                        *)
EndOfIteration ==
    /\ running /\ pc = "handled"
    /\ pc' = "recv"
    /\ event' = <<"None">>
    /\ outcome' = <<>>
    /\ before' = NoSnapshot
    /\ refused' = NoConn
    /\ UNCHANGED <<server, conns, sessions, running>>
    /\ UNCHANGED ioVars
    /\ UNCHANGED auxVars

(* UserHandle::run, the outbound branch: the Session takes the next        *)
(* message from its queue.  Within an iteration of the Dispatcher the      *)
(* queues only grow; the Sessions are seen to take messages between two    *)
(* iterations.                                                             *)
SessionReceive(user_id) ==
    /\ pc = "recv"
    /\ user_id \in DOMAIN conns
    /\ conns[user_id] # <<>>
    /\ conns' = [conns EXCEPT ![user_id] = Tail(@)]
    /\ UNCHANGED <<server, sessions, pc, running, refused, event, outcome, before>>

(* The loop of Dispatcher::run takes the next event from its inbound      *)
(* queue: a connection, or a request or the end of a live Session.  Here   *)
(* the queue is not kept: any event a live Session or the accept loop can  *)
(* send is taken as the next one.                                          *)
DispatcherStep ==
    /\ running /\ pc = "recv"
    /\ QueuesBelowBound
    /\ before' = Snapshot(server, conns, sessions)
    /\ UNCHANGED ioVars
    /\ UNCHANGED auxVars
    /\ \/ Connected
       \/ \E user_id \in sessions : \E request \in RequestsAt(server) :
             HandleRequest(user_id, request)
       \/ \E user_id \in sessions : Disconnected(user_id)

Next ==
    \/ DispatcherStep
    \/ EndOfIteration
    \/ \E user_id \in sessions :
          SessionReceive(user_id) /\ UNCHANGED ioVars /\ UNCHANGED auxVars

Spec == Init /\ [][Next]_vars

-----------------------------------------------------------------------------
(* Properties.  In a state with pc = "handled" the Dispatcher has handled   *)
(* `event`: `before` is the state the event found, `outcome` is what the    *)
(* Server returned, and server, conns and sessions are what the event left. *)

Members(room) == Range(room.members)
Joiners(room) == Range(room.join_requests)

Handled(kind) == pc = "handled" /\ event[1] = kind

IsError(returns) == returns # None /\ returns[1][1] = "Error"

(* The messages the iteration put on the queue of user u *)
Enqueued(u) ==
    IF u \in DOMAIN before.conns
    THEN SubSeq(conns[u], Len(before.conns[u]) + 1, Len(conns[u]))
    ELSE conns[u]

(* The messages of the sends list addressed to user u, in order *)
RECURSIVE SendsTo(_, _)
SendsTo(sends, u) ==
    IF sends = <<>> THEN <<>>
    ELSE (IF Head(sends)[1] = u THEN <<Head(sends)[2]>> ELSE <<>>)
         \o SendsTo(Tail(sends), u)

-----------------------------------------------------------------------------
(* The second specification keeps the inbound queue of the Dispatcher: the *)
(* accept loop and the Sessions send events to it, Dispatcher::run takes   *)
(* them from it, and the Sessions write what their outbound queue holds.   *)

(* The connections the accept loop takes, and the lines a Session reads *)
MaxAccepts == 2
MaxLines == 2

(* The lines a Session reads, as request::parse returns them *)
SessionLines ==
    {<<"CreateRoom", "txt">>, <<"AskJoinRoom", 1, "txt">>,
     <<"LeaveRoom", 1>>, <<"Quit">>}

(* mpsc::UnboundedSender::send : the event goes to the back of the queue *)
inbound_send(queue, ev) == Append(queue, ev)

(* a receiver that hands out the newest event *)
inbound_next_newest(queue) ==
    [event |-> queue[Len(queue)], rest |-> SubSeq(queue, 1, Len(queue) - 1)]

(* self.in_.next() : the event at the front of the queue *)
inbound_next(queue) == [event |-> Head(queue), rest |-> Tail(queue)]

(* The Sessions that have ended: Disconnected is the last event of one *)
Ended(u) == \E i \in 1 .. Len(in_) : in_[i] = <<"Disconnected", u>>

Live == {u \in sessions : ~Ended(u)}

(* The holders of a Sender of the inbound queue: the accept loop until it  *)
(* ends, every running Session, and the Dispatcher itself, whose field out *)
(* lives as long as run does.                                              *)
Senders ==
    (IF accepting THEN {<<"accept">>} ELSE {})
    \cup {<<"session", u>> : u \in Live}
    \cup (IF running THEN {<<"dispatcher">>} ELSE {})

(* The messages Dispatcher::dispatch_response sends to the queue of u, in  *)
(* the order of its calls of Dispatcher::send                              *)
Deliveries(requester, response, u) ==
    (IF u = requester /\ response.returns # None
     THEN <<response.returns[1]>> ELSE <<>>)
    \o SendsTo(response.sends, u)

(* start_server : the accept loop sends Connected for a new connection *)
AcceptUpTo(limit) ==
    /\ accepting /\ pc = "recv"
    /\ Len(SelectSeq(arrived, LAMBDA ev : ev[1] = "Connected")) < limit
    /\ in_' = inbound_send(in_, <<"Connected">>)
    /\ arrived' = Append(arrived, <<"Connected">>)
    /\ UNCHANGED <<server, conns, sessions, pc, running, refused, event, outcome,
                   before, accepting, forwarded, applied, sent, written, task, joined, dropped>>

Accept == AcceptUpTo(MaxAccepts)

(* start_server : the listener ends and the loop drops dispatcher_send *)
AcceptExit ==
    /\ accepting /\ pc = "recv"
    /\ accepting' = FALSE
    /\ UNCHANGED <<server, conns, sessions, pc, running, refused, event, outcome,
                   before, in_, forwarded, arrived, applied, sent, written, task, joined, dropped>>

(* UserHandle::run, the inbound branch: a line is read and parsed; Quit    *)
(* ends the loop, any other request is forwarded.  When the loop has ended *)
(* the task sends Disconnected.                                            *)
SessionRead(u) ==
    /\ pc = "recv"
    /\ u \in Live
    /\ Len(forwarded[u]) < MaxLines
    /\ \E request \in SessionLines :
          LET ev == IF request[1] = "Quit" THEN <<"Disconnected", u>>
                    ELSE <<"Request", u, request>>
          IN  /\ in_' = inbound_send(in_, ev)
              /\ arrived' = Append(arrived, ev)
              /\ forwarded' = IF request[1] = "Quit" THEN forwarded
                              ELSE [forwarded EXCEPT ![u] = Append(@, request)]
    /\ UNCHANGED <<server, conns, sessions, pc, running, refused, event, outcome,
                   before, accepting, applied, sent, written, task, joined, dropped>>

(* UserHandle::run : the connection ends, or a read fails, and so the loop *)
SessionEnd(u) ==
    /\ pc = "recv"
    /\ u \in Live
    /\ in_' = inbound_send(in_, <<"Disconnected", u>>)
    /\ arrived' = Append(arrived, <<"Disconnected", u>>)
    /\ UNCHANGED <<server, conns, sessions, pc, running, refused, event, outcome,
                   before, accepting, forwarded, applied, sent, written, task, joined, dropped>>

(* UserHandle::run, the outbound branch: the message is written *)
SessionWrite(u) ==
    /\ u \in Live
    /\ SessionReceive(u)
    /\ written' = [written EXCEPT ![u] = Append(@, Head(conns[u]))]
    /\ UNCHANGED <<in_, accepting, forwarded, arrived, applied, sent, task, joined, dropped>>

(* Dispatcher::run : one turn of the while-let loop.  next() yields the    *)
(* event at the front, or nothing once the queue is empty and no Sender is *)
(* left, and then the loop ends.                                           *)
DispatcherLoop(welcomed) ==
    /\ running /\ pc = "recv"
    /\ \/ /\ in_ # <<>>
          /\ before' = Snapshot(server, conns, sessions)
          /\ in_' = inbound_next(in_).rest
          /\ applied' = Append(applied, inbound_next(in_).event)
          /\ LET ev == inbound_next(in_).event
             IN  \/ /\ ev[1] = "Connected"
                    /\ Connected
                    /\ forwarded' = IF outcome' = None THEN forwarded
                                    ELSE MapInsert(forwarded, outcome'[1], <<>>)
                    /\ sent' = IF outcome' = None THEN sent
                               ELSE MapInsert(sent, outcome'[1], <<>>)
                    /\ written' = IF outcome' = None THEN written
                                  ELSE MapInsert(written, outcome'[1],
                                                 IF welcomed
                                                 THEN <<Welcome(outcome'[1])>>
                                                 ELSE <<>>)
                 \/ /\ ev[1] = "Request"
                    /\ HandleRequest(ev[2], ev[3])
                    /\ sent' = [u \in DOMAIN sent |->
                                  IF u \in DOMAIN conns
                                  THEN sent[u] \o Deliveries(ev[2], outcome', u)
                                  ELSE sent[u]]
                    /\ UNCHANGED <<forwarded, written>>
                 \/ /\ ev[1] = "Disconnected"
                    /\ Disconnected(ev[2])
                    /\ UNCHANGED <<forwarded, sent, written>>
          /\ UNCHANGED <<accepting, arrived>>
       \/ /\ in_ = <<>>
          /\ Senders = {}
          /\ running' = FALSE
          /\ UNCHANGED <<server, conns, sessions, pc, refused, event, outcome,
                         before, in_, accepting, forwarded, arrived, applied,
                         sent, written>>

(* Here the Welcome of a new Session counts as written when it is spawned *)
DispatcherRecv == DispatcherLoop(TRUE) /\ UNCHANGED auxVars

NextIO ==
    \/ Accept
    \/ AcceptExit
    \/ \E u \in sessions : SessionRead(u)
    \/ \E u \in sessions : SessionEnd(u)
    \/ \E u \in sessions : SessionWrite(u)
    \/ DispatcherRecv
    \/ EndOfIteration

SpecIO == Init /\ [][NextIO]_vars

-----------------------------------------------------------------------------
(* C1: in every state the Dispatcher's events lead to, a live user's state *)
(* is RoomOwner(r), InRoom(r) or RequestedJoin(r) exactly when the user is *)
(* the owner, a member or a pending joiner of room r, and Nowhere exactly  *)
(* when it is none of these in any room.                                   *)
StateConsistency ==
    \A u \in DOMAIN server.users :
        LET st == server.users[u].state
        IN  /\ \A r \in IDs :
                /\ st = RoomOwner(r) <=>
                       (r \in DOMAIN server.rooms /\ server.rooms[r].owner_id = u)
                /\ st = InRoom(r) <=>
                       (r \in DOMAIN server.rooms /\ u \in Members(server.rooms[r]))
                /\ st = RequestedJoin(r) <=>
                       (r \in DOMAIN server.rooms /\ u \in Joiners(server.rooms[r]))
            /\ st = Nowhere <=>
                   \A r \in DOMAIN server.rooms :
                       /\ server.rooms[r].owner_id # u
                       /\ u \notin Members(server.rooms[r])
                       /\ u \notin Joiners(server.rooms[r])

(* A request was handled and a room has an owner, a member and a joiner *)
StateConsistencyWitness ==
    /\ Handled("Request")
    /\ \E r \in DOMAIN server.rooms :
          server.rooms[r].members # <<>> /\ server.rooms[r].join_requests # <<>>

(* C2: a request whose Response returns an Error has no sends and leaves   *)
(* the Server as it was, and the Dispatcher enqueues that one Error        *)
(* message on the requester's queue and nothing on any other queue.        *)
ErrorsChangeNothing ==
    (Handled("Request") /\ IsError(outcome.returns))
        => /\ outcome.sends = <<>>
           /\ server = before.server
           /\ DOMAIN conns = DOMAIN before.conns
           /\ \A u \in DOMAIN conns :
                 Enqueued(u) = IF u = event[2] THEN <<outcome.returns[1]>> ELSE <<>>

(* A user that has a pending join request asked to join again *)
ErrorsChangeNothingWitness ==
    /\ Handled("Request")
    /\ event[3][1] = "AskJoinRoom"
    /\ outcome.returns = Some(ErrorMsg("AlreadyRequestedJoin"))
    /\ conns[event[2]] = <<ErrorMsg("AlreadyRequestedJoin")>>

(* C3: when Disconnected(u) is handled, every (target, message) of the     *)
(* Response of remove_user(u) is put on target's queue, and then u's own   *)
(* queue is dropped.                                                       *)
DisconnectFanOut ==
    (Handled("Disconnected") /\ outcome.ok)
        => /\ DOMAIN conns = DOMAIN before.conns \ {event[2]}
           /\ \A u \in DOMAIN conns : Enqueued(u) = SendsTo(outcome.val.sends, u)

(* C4: after remove_user(u) succeeded, u is in no map and in no room; a    *)
(* room u owned is gone and its members and joiners are Nowhere; every     *)
(* other user and every other room is as before, and the room u was in     *)
(* only lost u.                                                            *)
RemovalRestoresConsistency ==
    (Handled("Disconnected") /\ outcome.ok)
        => LET u == event[2]
               old == before.server
               st == old.users[u].state
               owned == IF st[1] = "RoomOwner" THEN {st[2]} ELSE {}
               left == IF st[1] \in {"InRoom", "RequestedJoin"} THEN {st[2]} ELSE {}
               freed == UNION {Members(old.rooms[r]) \cup Joiners(old.rooms[r]) :
                                  r \in owned \cap DOMAIN old.rooms}
           IN  /\ DOMAIN server.users = DOMAIN old.users \ {u}
               /\ DOMAIN server.rooms = DOMAIN old.rooms \ owned
               /\ \A r \in DOMAIN server.rooms :
                     /\ server.rooms[r].owner_id # u
                     /\ u \notin Members(server.rooms[r])
                     /\ u \notin Joiners(server.rooms[r])
               /\ \A v \in freed \cap DOMAIN server.users :
                     server.users[v].state = Nowhere
               /\ freed \subseteq DOMAIN server.users
               /\ \A v \in DOMAIN server.users \ freed :
                     server.users[v] = old.users[v]
               /\ \A r \in DOMAIN server.rooms \ left :
                     server.rooms[r] = old.rooms[r]
               /\ \A r \in DOMAIN server.rooms \cap left :
                     /\ server.rooms[r].id = old.rooms[r].id
                     /\ server.rooms[r].owner_id = old.rooms[r].owner_id
                     /\ server.rooms[r].data = old.rooms[r].data
                     /\ Members(server.rooms[r]) = Members(old.rooms[r]) \ {u}
                     /\ Joiners(server.rooms[r]) = Joiners(old.rooms[r]) \ {u}
                     /\ Len(server.rooms[r].members) + Len(server.rooms[r].join_requests)
                        = Len(old.rooms[r].members) + Len(old.rooms[r].join_requests) - 1
               /\ server.last_user_id = old.last_user_id
               /\ server.last_room_id = old.last_room_id

(* A member left by disconnecting while the room had somebody else too *)
RemovalRestoresConsistencyWitness ==
    /\ Handled("Disconnected")
    /\ outcome.ok
    /\ outcome.val.sends # <<>>
    /\ outcome.val.sends[1][2][1] = "PlayerLeft"
    /\ \E r \in DOMAIN server.rooms :
          server.rooms[r].members # <<>> \/ server.rooms[r].join_requests # <<>>

(* C5: in every room the owner is neither a member nor a pending joiner,   *)
(* nobody is both a member and a pending joiner, and nobody occurs twice   *)
(* in members or twice in join_requests.                                   *)
RoleExclusivity ==
    \A r \in DOMAIN server.rooms :
        LET room == server.rooms[r]
        IN  /\ room.owner_id \notin Members(room) \cup Joiners(room)
            /\ Members(room) \cap Joiners(room) = {}
            /\ Cardinality(Members(room)) = Len(room.members)
            /\ Cardinality(Joiners(room)) = Len(room.join_requests)

(* The owner accepted a join request while another one is pending *)
RoleExclusivityWitness ==
    /\ Handled("Request")
    /\ event[3][1] = "AcceptJoinRoom"
    /\ ~IsError(outcome.returns)
    /\ \E r \in DOMAIN server.rooms :
          server.rooms[r].members # <<>> /\ server.rooms[r].join_requests # <<>>

(* C6: every room a user's state names is in the rooms map, and every      *)
(* owner, member and pending joiner of a room is in the users map.         *)
ReferentialIntegrity ==
    /\ \A u \in DOMAIN server.users :
          server.users[u].state # Nowhere
              => server.users[u].state[2] \in DOMAIN server.rooms
    /\ \A r \in DOMAIN server.rooms :
          /\ server.rooms[r].owner_id \in DOMAIN server.users
          /\ Members(server.rooms[r]) \subseteq DOMAIN server.users
          /\ Joiners(server.rooms[r]) \subseteq DOMAIN server.users

(* The owner of a room with a member and a pending joiner disconnected *)
ReferentialIntegrityWitness ==
    /\ Handled("Disconnected")
    /\ outcome.ok
    /\ Len(outcome.val.sends) = 2
    /\ outcome.val.sends[1][2][1] = "RoomClosed"
    /\ Cardinality(DOMAIN server.users) = 2

(* C7: LeaveRoom(r) by the owner of r removes r, leaves the owner and      *)
(* every former member and pending joiner Nowhere, returns nothing to the  *)
(* owner, and sends one RoomClosed(r) to each former member and pending    *)
(* joiner and to nobody else.                                              *)
OwnerLeaveClosesRoom ==
    (/\ Handled("Request")
     /\ event[3][1] = "LeaveRoom"
     /\ event[3][2] \in DOMAIN before.server.rooms
     /\ before.server.rooms[event[3][2]].owner_id = event[2])
        => LET u == event[2]
               r == event[3][2]
               old == before.server.rooms[r]
               former == Members(old) \cup Joiners(old)
           IN  /\ r \notin DOMAIN server.rooms
               /\ server.users[u].state = Nowhere
               /\ \A v \in former :
                     v \in DOMAIN server.users /\ server.users[v].state = Nowhere
               /\ outcome.returns = None
               /\ Len(outcome.sends) = Cardinality(former)
               /\ \A v \in former : \E i \in 1 .. Len(outcome.sends) :
                     outcome.sends[i] = <<v, RoomClosed(r)>>
               /\ DOMAIN conns = DOMAIN before.conns
               /\ \A v \in DOMAIN conns :
                     Enqueued(v) = IF v \in former THEN <<RoomClosed(r)>> ELSE <<>>

(* The owner left a room that had a member and a pending joiner *)
OwnerLeaveClosesRoomWitness ==
    /\ Handled("Request")
    /\ event[3][1] = "LeaveRoom"
    /\ Len(outcome.sends) = 2
    /\ outcome.sends[1][2] = RoomClosed(event[3][2])
    /\ outcome.sends[2][2] = RoomClosed(event[3][2])
    /\ before.server.rooms[event[3][2]].join_requests # <<>>

(* C8: the Server never has more than max_connections users; add_user      *)
(* returns none, and changes nothing, exactly when it is called with       *)
(* max_connections users or more, and otherwise adds exactly one user,     *)
(* Nowhere, and changes no other user and no room.                         *)
ConnectionCap ==
    /\ Cardinality(DOMAIN server.users) <= MaxConnections
    /\ Handled("Connected")
         => LET old == before.server
            IN  /\ outcome = None <=> Cardinality(DOMAIN old.users) >= MaxConnections
                /\ outcome = None => server = old
                /\ outcome # None
                     => /\ outcome[1] \notin DOMAIN old.users
                        /\ DOMAIN server.users = DOMAIN old.users \cup {outcome[1]}
                        /\ server.users[outcome[1]] = NewUser(outcome[1])
                        /\ \A v \in DOMAIN old.users : server.users[v] = old.users[v]
                        /\ server.rooms = old.rooms

(* The last free slot was taken *)
ConnectionCapWitness ==
    /\ Handled("Connected")
    /\ outcome # None
    /\ Cardinality(DOMAIN server.users) = MaxConnections

IdentifierFreshness ==
    /\ (Handled("Connected") /\ outcome # None)
         => /\ outcome[1] \notin DOMAIN before.server.users
            /\ \A v \in DOMAIN before.server.users :
                  v \in DOMAIN server.users
                  /\ server.users[v] = before.server.users[v]
    /\ (Handled("Request") /\ event[3][1] = "CreateRoom" /\ ~IsError(outcome.returns))
         => /\ outcome.returns # None
            /\ outcome.returns[1][1] = "RoomCreated"
            /\ outcome.returns[1][2] \notin DOMAIN before.server.rooms
            /\ outcome.returns[1][2] \in DOMAIN server.rooms
            /\ \A q \in DOMAIN before.server.rooms :
                  q \in DOMAIN server.rooms
                  /\ server.rooms[q] = before.server.rooms[q]

(* A room got an id below that of a live room: the counter has wrapped and *)
(* the scan went past a live room                                          *)
IdentifierFreshnessWitness ==
    /\ Handled("Request")
    /\ event[3][1] = "CreateRoom"
    /\ outcome.returns = Some(RoomCreated(1))
    /\ 0 \in DOMAIN server.rooms
    /\ 3 \in DOMAIN server.rooms

(* The request the iteration handled, its caller, and the state of the    *)
(* caller and of the named room as the iteration began                     *)
HandledRequest(kind) == Handled("Request") /\ event[3][1] = kind

Caller == event[2]

RoomNamed == event[3][2]

RoomExisted == RoomNamed \in DOMAIN before.server.rooms

RoomBefore == before.server.rooms[RoomNamed]

UserBefore(u) == before.server.users[u]

(* Nothing but the named fields of the Server differs from the snapshot *)
OnlyUserAndRoomChanged(u, r) ==
    /\ DOMAIN server.users = DOMAIN before.server.users
    /\ DOMAIN server.rooms = DOMAIN before.server.rooms
    /\ \A v \in DOMAIN server.users \ {u} : server.users[v] = before.server.users[v]
    /\ \A q \in DOMAIN server.rooms \ {r} : server.rooms[q] = before.server.rooms[q]
    /\ server.last_user_id = before.server.last_user_id
    /\ server.last_room_id = before.server.last_room_id

(* The iteration enqueued exactly the messages of `sends`, nothing else *)
EnqueuedExactly(sends) ==
    /\ DOMAIN conns = DOMAIN before.conns
    /\ \A v \in DOMAIN conns : Enqueued(v) = SendsTo(sends, v)

(* C11: neither add_user nor CreateRoom ever issues the identifier 0.      *)
ZeroNeverIssued ==
    /\ (Handled("Connected") /\ outcome # None) => outcome[1] # 0
    /\ (HandledRequest("CreateRoom") /\ ~IsError(outcome.returns))
          => /\ outcome.returns # Some(RoomCreated(0))
             /\ 0 \notin DOMAIN server.rooms

(* C12: AskJoinRoom(r, msg) by a user in state Nowhere on an existing room *)
(* r appends the user to the join requests of r, makes its state           *)
(* RequestedJoin(r), changes nothing else, returns nothing, and sends      *)
(* JoinRequested(r, u, msg) to the owner of r and nothing to anyone else.  *)
JoinRequest ==
    (/\ HandledRequest("AskJoinRoom")
     /\ RoomExisted
     /\ UserBefore(Caller).state = Nowhere)
        => /\ server.rooms[RoomNamed] =
                 [RoomBefore EXCEPT !.join_requests = Append(@, Caller)]
           /\ server.users[Caller] =
                 [UserBefore(Caller) EXCEPT !.state = RequestedJoin(RoomNamed)]
           /\ OnlyUserAndRoomChanged(Caller, RoomNamed)
           /\ outcome.returns = None
           /\ outcome.sends =
                 <<<<RoomBefore.owner_id,
                     JoinRequested(RoomNamed, Caller, event[3][3])>>>>
           /\ EnqueuedExactly(outcome.sends)

(* A second user asked to join a room that had a pending joiner already *)
JoinRequestWitness ==
    /\ HandledRequest("AskJoinRoom")
    /\ RoomExisted
    /\ UserBefore(Caller).state = Nowhere
    /\ Len(server.rooms[RoomNamed].join_requests) = 2
    /\ conns[RoomBefore.owner_id] # <<>>

(* The owner of an existing room resolved the join request of a pending   *)
(* joiner: the effect C13 describes                                        *)
JoinResolved ==
    (/\ HandledRequest("AcceptJoinRoom") \/ HandledRequest("RejectJoinRoom")
     /\ RoomExisted
     /\ RoomBefore.owner_id = Caller
     /\ event[3][3] \in Joiners(RoomBefore))
        => LET other == event[3][3]
               room == server.rooms[RoomNamed]
           IN  /\ Joiners(room) = Joiners(RoomBefore) \ {other}
               /\ Len(room.join_requests) = Len(RoomBefore.join_requests) - 1
               /\ room.id = RoomBefore.id
               /\ room.owner_id = RoomBefore.owner_id
               /\ room.data = RoomBefore.data
               /\ OnlyUserAndRoomChanged(other, RoomNamed)
               /\ server.users[other].id = other
               /\ outcome.returns = None
               /\ EnqueuedExactly(outcome.sends)
               /\ event[3][1] = "AcceptJoinRoom"
                    => /\ room.members = Append(RoomBefore.members, other)
                       /\ server.users[other].state = InRoom(RoomNamed)
                       /\ outcome.sends = <<<<other, RoomJoined(RoomNamed)>>>>
               /\ event[3][1] = "RejectJoinRoom"
                    => /\ room.members = RoomBefore.members
                       /\ server.users[other].state = Nowhere
                       /\ expect_nowhere(server.users[other]).ok
                       /\ outcome.sends =
                             <<<<other, RoomRejected(RoomNamed, event[3][4])>>>>

(* The owner of an existing room named somebody who is no pending joiner *)
OwnerNamedNoJoiner ==
    /\ HandledRequest("AcceptJoinRoom") \/ HandledRequest("RejectJoinRoom")
    /\ RoomExisted
    /\ RoomBefore.owner_id = Caller
    /\ event[3][3] \notin Joiners(RoomBefore)

(* C13 as stated: the owner's AcceptJoinRoom or RejectJoinRoom resolves    *)
(* the request of a pending joiner, and for every other that is not a      *)
(* pending joiner of r the result is Error(NoSuchJoinRequest).             *)
JoinResolutionAsClaimed ==
    /\ JoinResolved
    /\ OwnerNamedNoJoiner
          => outcome.returns = Some(ErrorMsg("NoSuchJoinRequest"))

(* C13, amended: the owner's AcceptJoinRoom or RejectJoinRoom resolves the *)
(* request of a pending joiner; for an other that is a user but no pending *)
(* joiner of r the result is Error(NoSuchJoinRequest), and for an other    *)
(* that is no user it is Error(NoSuchUser).                                *)
JoinResolution ==
    /\ JoinResolved
    /\ OwnerNamedNoJoiner
          => outcome.returns =
                Some(ErrorMsg(IF event[3][3] \in DOMAIN before.server.users
                              THEN "NoSuchJoinRequest" ELSE "NoSuchUser"))

(* The owner rejected one of two pending joiners *)
JoinResolutionWitness ==
    /\ HandledRequest("RejectJoinRoom")
    /\ RoomExisted
    /\ RoomBefore.owner_id = Caller
    /\ Len(RoomBefore.join_requests) = 2
    /\ outcome.sends # <<>>
    /\ Len(server.rooms[RoomNamed].join_requests) = 1

(* C14: Send(r, payload) on an existing room changes nothing and returns   *)
(* nothing; from the owner it sends one ReceivedBroadcast(r, payload) to   *)
(* each member and to nobody else; from anybody else it sends one          *)
(* ReceivedFrom(r, caller, payload) to the owner.                          *)
SendRouting ==
    (HandledRequest("Send") /\ RoomExisted)
        => /\ server = before.server
           /\ outcome.returns = None
           /\ EnqueuedExactly(outcome.sends)
           /\ IF Caller = RoomBefore.owner_id
              THEN /\ Len(outcome.sends) = Cardinality(Members(RoomBefore))
                   /\ \A m \in Members(RoomBefore) :
                         \E i \in 1 .. Len(outcome.sends) :
                            outcome.sends[i] =
                               <<m, ReceivedBroadcast(RoomNamed, event[3][3])>>
              ELSE outcome.sends =
                      <<<<RoomBefore.owner_id,
                          ReceivedFrom(RoomNamed, Caller, event[3][3])>>>>

(* The owner sent to a room that has a member and a pending joiner *)
SendRoutingWitness ==
    /\ HandledRequest("Send")
    /\ RoomExisted
    /\ Caller = RoomBefore.owner_id
    /\ RoomBefore.members # <<>>
    /\ RoomBefore.join_requests # <<>>
    /\ Len(outcome.sends) = 1

(* C15: on an existing room whose owner is not the caller, SendTo and      *)
(* EchoFrom return Error(NotRoomOwner) whoever they name, and              *)
(* AcceptJoinRoom and RejectJoinRoom do when they name an existing user;   *)
(* nothing is sent to anyone else and the state is unchanged.              *)
OwnerOnly ==
    (/\ \/ HandledRequest("SendTo")
        \/ HandledRequest("EchoFrom")
        \/ /\ HandledRequest("AcceptJoinRoom") \/ HandledRequest("RejectJoinRoom")
           /\ event[3][3] \in DOMAIN before.server.users
     /\ RoomExisted
     /\ RoomBefore.owner_id # Caller)
        => /\ outcome.returns = Some(ErrorMsg("NotRoomOwner"))
           /\ outcome.sends = <<>>
           /\ server = before.server
           /\ DOMAIN conns = DOMAIN before.conns
           /\ \A v \in DOMAIN conns :
                 Enqueued(v) = IF v = Caller THEN <<ErrorMsg("NotRoomOwner")>>
                               ELSE <<>>

(* A member of the room tried to accept a pending joiner *)
OwnerOnlyWitness ==
    /\ HandledRequest("AcceptJoinRoom")
    /\ RoomExisted
    /\ Caller \in Members(RoomBefore)
    /\ event[3][3] \in Joiners(RoomBefore)

(* What CreateRoom does, from whichever state: the part of C16 about it *)
CreateRoomOnlyFromNowhere ==
    HandledRequest("CreateRoom")
        => LET st == UserBefore(Caller).state
           IN  /\ st[1] \in {"RoomOwner", "InRoom"}
                    => /\ outcome.returns = Some(ErrorMsg("AlreadyInARoom"))
                       /\ server = before.server
               /\ st[1] = "RequestedJoin"
                    => /\ outcome.returns = Some(ErrorMsg("AlreadyRequestedJoin"))
                       /\ server = before.server
               /\ st = Nowhere
                    => \E r \in IDs \ DOMAIN before.server.rooms :
                          /\ outcome.returns = Some(RoomCreated(r))
                          /\ outcome.sends = <<>>
                          /\ server.rooms =
                                MapInsert(before.server.rooms, r,
                                          [id |-> r, owner_id |-> Caller,
                                           data |-> event[3][2],
                                           members |-> <<>>,
                                           join_requests |-> <<>>])
                          /\ server.users =
                                [before.server.users EXCEPT
                                    ![Caller].state = RoomOwner(r)]
                          /\ server.last_room_id = r
                          /\ server.last_user_id = before.server.last_user_id

(* What AskJoinRoom does from a state other than Nowhere *)
AskJoinRefused ==
    LET st == UserBefore(Caller).state
    IN  /\ st[1] \in {"RoomOwner", "InRoom"}
             => outcome.returns = Some(ErrorMsg("AlreadyInARoom"))
        /\ st[1] = "RequestedJoin"
             => outcome.returns = Some(ErrorMsg("AlreadyRequestedJoin"))
        /\ st # Nowhere => server = before.server

(* C16 as stated: CreateRoom and AskJoinRoom(r, msg), for every r, are     *)
(* refused with AlreadyInARoom from RoomOwner and InRoom and with          *)
(* AlreadyRequestedJoin from RequestedJoin, and change nothing; only from  *)
(* Nowhere does CreateRoom create a room.                                  *)
OnePlaceAtATimeAsClaimed ==
    /\ CreateRoomOnlyFromNowhere
    /\ HandledRequest("AskJoinRoom") => AskJoinRefused

(* C16, amended: as stated, with AskJoinRoom(r, msg) on an existing room   *)
(* r; on a room that does not exist AskJoinRoom returns Error(NoSuchRoom)  *)
(* from every state and changes nothing.                                   *)
OnePlaceAtATime ==
    /\ CreateRoomOnlyFromNowhere
    /\ (HandledRequest("AskJoinRoom") /\ RoomExisted) => AskJoinRefused
    /\ (HandledRequest("AskJoinRoom") /\ ~RoomExisted)
          => /\ outcome.returns = Some(ErrorMsg("NoSuchRoom"))
             /\ server = before.server

(* A pending joiner of one room asked to join another room *)
OnePlaceAtATimeWitness ==
    /\ HandledRequest("AskJoinRoom")
    /\ RoomExisted
    /\ UserBefore(Caller).state[1] = "RequestedJoin"
    /\ UserBefore(Caller).state[2] # RoomNamed
    /\ outcome.returns = Some(ErrorMsg("AlreadyRequestedJoin"))

(* C17: Ping(n), from any caller in any state, returns Pong(n) to the      *)
(* caller, sends nothing to anyone else and leaves the State Core          *)
(* unchanged.                                                              *)
PingPong ==
    HandledRequest("Ping")
        => /\ outcome.returns = Some(Pong(event[3][2]))
           /\ outcome.sends = <<>>
           /\ server = before.server
           /\ DOMAIN conns = DOMAIN before.conns
           /\ \A v \in DOMAIN conns :
                 Enqueued(v) = IF v = Caller THEN <<Pong(event[3][2])>> ELSE <<>>

(* What an event does to the State Core *)
ApplyEvent(s, ev) ==
    CASE ev[1] = "Connected" -> add_user(s).server
      [] ev[1] = "Request" -> handle_request(s, ev[2], ev[3], <<>>).server
      [] ev[1] = "Disconnected" -> remove_user(s, ev[2]).server

(* The State Core after the events, applied one at a time from the first *)
RECURSIVE Replay(_, _)
Replay(s, events) ==
    IF events = <<>> THEN s
    ELSE Replay(ApplyEvent(s, Head(events)), Tail(events))

(* The requests of user u among the events, in order *)
RequestsOf(events, u) ==
    LET mine == SelectSeq(events, LAMBDA ev : ev[1] = "Request" /\ ev[2] = u)
    IN  [i \in 1 .. Len(mine) |-> mine[i][3]]

IsPrefix(a, b) == Len(a) <= Len(b) /\ a = SubSeq(b, 1, Len(a))

(* C18: the Dispatcher handles the events one at a time in the order they  *)
(* arrived on its inbound queue, the State Core is the result of applying  *)
(* them in that order, and the requests of one Session are handled in the  *)
(* order the Session read them, all of them before its Disconnected.       *)
FifoProcessing ==
    /\ applied \o in_ = arrived
    /\ server = Replay(NewServer, applied)
    /\ pc = "handled" => applied # <<>> /\ event = applied[Len(applied)]
    /\ \A u \in DOMAIN forwarded :
          /\ IsPrefix(RequestsOf(applied, u), forwarded[u])
          /\ (\E i \in 1 .. Len(applied) : applied[i] = <<"Disconnected", u>>)
                => /\ RequestsOf(applied, u) = forwarded[u]
                   /\ applied[Len(applied)] # <<"Disconnected", u>>
                         => \A i \in 1 .. Len(applied) :
                               applied[i] = <<"Disconnected", u>>
                                  => \A j \in (i + 1) .. Len(applied) :
                                        applied[j][1] = "Connected"
                                        \/ applied[j][2] # u

(* A Session's two different requests and its Disconnected were handled    *)
(* while an event of somebody else was waiting and another was handled     *)
(* between them                                                            *)
FifoProcessingWitness ==
    \E u \in DOMAIN forwarded :
        /\ Len(forwarded[u]) = 2
        /\ forwarded[u][1] # forwarded[u][2]
        /\ \E i \in 1 .. Len(applied) : applied[i] = <<"Disconnected", u>>
        /\ in_ # <<>>
        /\ \E i \in 2 .. Len(applied) - 1 :
              /\ applied[i][1] = "Request" /\ applied[i][2] # u
              /\ applied[i - 1] = <<"Request", u, forwarded[u][1]>>
              /\ applied[i + 1] = <<"Request", u, forwarded[u][2]>>

ShutdownClosesQueue ==
    (/\ ~accepting
     /\ sessions = {}
     /\ in_ = <<>>
     /\ pc = "recv")
        => Senders = {} \/ ~running

(* C22: LeaveRoom(r) on an existing room r by a caller who is not the      *)
(* owner of r takes the caller out of the members of r when it is          *)
(* InRoom(r), out of the join requests of r when it is RequestedJoin(r),   *)
(* leaves it Nowhere and sends PlayerLeft(r, caller) to the owner of r and *)
(* nothing else; in every other state of the caller, the ownership of      *)
(* another room included, it fails with NotInThatRoom and changes nothing. *)
NonOwnerLeave ==
    (/\ HandledRequest("LeaveRoom")
     /\ RoomExisted
     /\ RoomBefore.owner_id # Caller)
        => LET u == Caller
               r == RoomNamed
               st == UserBefore(u).state
           IN  IF st \in {InRoom(r), RequestedJoin(r)}
               THEN /\ server.users[u].state = Nowhere
                    /\ ~Contains(server.rooms[r].members, u)
                    /\ ~Contains(server.rooms[r].join_requests, u)
                    /\ Members(server.rooms[r]) = Members(RoomBefore) \ {u}
                    /\ Joiners(server.rooms[r]) = Joiners(RoomBefore) \ {u}
                    /\ OnlyUserAndRoomChanged(u, r)
                    /\ outcome = ResponseSends(RoomBefore.owner_id, PlayerLeft(r, u))
                    /\ EnqueuedExactly(outcome.sends)
               ELSE /\ outcome = ResponseError("NotInThatRoom")
                    /\ server = before.server
                    /\ EnqueuedExactly(<<(<<u, ErrorMsg("NotInThatRoom")>>)>>)

(* C24: remove_user(u) fails with NoSuchUser and changes nothing when u is  *)
(* not a live user.  For a live user it succeeds with a Response that      *)
(* returns nothing and whose sends are: none when u was Nowhere; one        *)
(* PlayerLeft(r, u) to the owner of r when u was InRoom(r) or              *)
(* RequestedJoin(r); one RoomClosed(r) for each member and each pending     *)
(* joiner of r, and nothing else, when u was RoomOwner(r).                  *)
RemoveUserResponse ==
    /\ \A u \in IDs \ DOMAIN server.users :
          remove_user(server, u) = [server |-> server, result |-> Err("NoSuchUser")]
    /\ Handled("Disconnected")
          => LET u == event[2]
                 st == UserBefore(u).state
                 old == before.server.rooms[st[2]]
                 former == Members(old) \cup Joiners(old)
             IN  /\ outcome.ok
                 /\ outcome.val.returns = None
                 /\ st = Nowhere => outcome.val.sends = <<>>
                 /\ st[1] \in {"InRoom", "RequestedJoin"}
                       => outcome.val.sends
                             = <<(<<old.owner_id, PlayerLeft(st[2], u)>>)>>
                 /\ st[1] = "RoomOwner"
                       => /\ Len(outcome.val.sends) = Cardinality(former)
                          /\ \A v \in former : \E i \in 1 .. Len(outcome.val.sends) :
                                outcome.val.sends[i] = <<v, RoomClosed(st[2])>>

(* A member of a room disconnected and the owner of the room was told *)
RemoveUserResponseWitness ==
    /\ Handled("Disconnected")
    /\ UserBefore(event[2]).state[1] = "InRoom"
    /\ outcome.ok
    /\ Len(outcome.val.sends) = 1
    /\ outcome.val.sends[1][2][1] = "PlayerLeft"
    /\ \E u \in IDs : u \notin DOMAIN server.users

(* The first identifier after last, in cyclic order, that is not in live *)
FirstFree(last, live) ==
    LET k == CHOOSE k \in 1 .. IdModulus :
                /\ (last + k) % IdModulus \notin live
                /\ \A j \in 1 .. (k - 1) : (last + j) % IdModulus \in live
    IN  (last + k) % IdModulus

(* C26: add_user returns the first identifier, in cyclic order from        *)
(* last_user_id + 1, that is not live, and makes it last_user_id; so an     *)
(* identifier at or below last_user_id is issued only when every greater   *)
(* one is live.  CreateRoom does the same with last_room_id, which changes *)
(* only when CreateRoom succeeds.                                          *)
AllocatorScanOrder ==
    /\ (Handled("Connected") /\ outcome # None)
          => LET last == before.server.last_user_id
                 live == DOMAIN before.server.users
             IN  /\ outcome = Some(FirstFree(last, live))
                 /\ server.last_user_id = outcome[1]
                 /\ outcome[1] <= last
                       => \A id \in IDs : id > last => id \in live
    /\ (Handled("Connected") /\ outcome = None)
          => server.last_user_id = before.server.last_user_id
    /\ HandledRequest("CreateRoom")
          => LET last == before.server.last_room_id
                 live == DOMAIN before.server.rooms
             IN  IF IsError(outcome.returns)
                 THEN server.last_room_id = last
                 ELSE /\ outcome.returns = Some(RoomCreated(FirstFree(last, live)))
                      /\ server.last_room_id = FirstFree(last, live)
                      /\ FirstFree(last, live) <= last
                            => \A id \in IDs : id > last => id \in live
    /\ (Handled("Request") /\ event[3][1] # "CreateRoom")
          => server.last_room_id = before.server.last_room_id

(* A removed user's identifier was free and add_user passed it by: it      *)
(* issued the one after last_user_id                                       *)
AllocatorScanOrderWitness ==
    /\ Handled("Connected")
    /\ outcome # None
    /\ outcome[1] = before.server.last_user_id + 1
    /\ \E k \in IDs : /\ k >= 1
                      /\ k < outcome[1]
                      /\ k \notin DOMAIN before.server.users

(* C27: EchoFrom(r, from, payload) by the owner of r changes nothing; with *)
(* from a member of r it returns nothing and sends ReceivedBroadcast(r,    *)
(* payload) once to every member of r but from and to nobody else, and     *)
(* with from not a member it fails with NoSuchUser and sends nothing.      *)
(* SendTo(r, other, payload) under the same conditions sends               *)
(* ReceivedIndividual(r, payload) once, to other only.                     *)
EchoFromRouting ==
    (/\ (HandledRequest("EchoFrom") \/ HandledRequest("SendTo"))
     /\ RoomExisted
     /\ RoomBefore.owner_id = Caller)
        => LET r == RoomNamed
               named == event[3][3]
               payload == event[3][4]
               others == Members(RoomBefore) \ {named}
           IN  /\ server = before.server
               /\ named \notin Members(RoomBefore)
                     => /\ outcome = ResponseError("NoSuchUser")
                        /\ EnqueuedExactly(<<(<<Caller, ErrorMsg("NoSuchUser")>>)>>)
               /\ (named \in Members(RoomBefore) /\ event[3][1] = "EchoFrom")
                     => /\ outcome.returns = None
                        /\ Len(outcome.sends) = Cardinality(others)
                        /\ DOMAIN conns = DOMAIN before.conns
                        /\ \A v \in DOMAIN conns :
                              Enqueued(v) = IF v \in others
                                            THEN <<ReceivedBroadcast(r, payload)>>
                                            ELSE <<>>
               /\ (named \in Members(RoomBefore) /\ event[3][1] = "SendTo")
                     => /\ outcome = ResponseSends(named, ReceivedIndividual(r, payload))
                        /\ EnqueuedExactly(outcome.sends)

(* The owner echoed the payload of one of two members to the other *)
EchoFromRoutingWitness ==
    /\ HandledRequest("EchoFrom")
    /\ RoomExisted
    /\ Len(RoomBefore.members) = 2
    /\ outcome.returns = None
    /\ Len(outcome.sends) = 1
    /\ outcome.sends[1][1] # event[3][3]

(* C30: every Disconnected(u) the Dispatcher handles names a live user and *)
(* remove_user(u) succeeds, so no error of the Server ends the loop of the *)
(* Dispatcher, which goes on serving the other connections.                *)
DispatcherSurvivesDisconnect ==
    /\ running
    /\ Handled("Disconnected")
          => /\ event[2] \in DOMAIN before.server.users
             /\ outcome.ok
             /\ event[2] \notin DOMAIN server.users
             /\ event[2] \notin DOMAIN conns
             /\ DOMAIN conns = DOMAIN before.conns \ {event[2]}

(* The owner of a room with a member and a pending joiner disconnected    *)
(* and the Dispatcher goes on with two connections                         *)
DispatcherSurvivesDisconnectWitness ==
    /\ Handled("Disconnected")
    /\ UserBefore(event[2]).state[1] = "RoomOwner"
    /\ before.server.rooms[UserBefore(event[2]).state[2]].members # <<>>
    /\ before.server.rooms[UserBefore(event[2]).state[2]].join_requests # <<>>
    /\ running
    /\ Cardinality(DOMAIN conns) = 2

-----------------------------------------------------------------------------
(* The room specification follows one room through every history of its    *)
(* guests.  It starts from a Server in which user 1 owns room 1 and the     *)
(* guests are connected and Nowhere, a state max_connections = 256, the    *)
(* default, lets the program reach; nothing here allocates an identifier.   *)
(* joined keeps the members of the room in the order they were accepted    *)
(* and its pending joiners in the order they asked.                         *)

MaxGuests == 4
Guests == 2 .. (MaxGuests + 1)

RoomServer ==
    [last_user_id |-> MaxGuests + 1,
     users |-> [u \in 1 .. (MaxGuests + 1) |->
                   IF u = 1 THEN [id |-> 1, state |-> RoomOwner(1)] ELSE NewUser(u)],
     last_room_id |-> 1,
     rooms |-> [r \in {1} |-> NewRoom(1, 1, "txt")]]

InitRoom ==
    /\ server = RoomServer
    /\ conns = <<>>
    /\ sessions = {}
    /\ pc = "recv"
    /\ running = TRUE
    /\ refused = NoConn
    /\ event = <<"None">>
    /\ outcome = <<>>
    /\ before = NoSnapshot
    /\ in_ = <<>>
    /\ accepting = TRUE
    /\ forwarded = <<>>
    /\ arrived = <<>>
    /\ applied = <<>>
    /\ sent = <<>>
    /\ written = <<>>
    /\ task = <<>>
    /\ joined = NobodyJoined
    /\ dropped = <<>>

(* vec without v, the others in the order they had *)
Without(vec, v) == SelectSeq(vec, LAMBDA w : w # v)

(* The Server handles a request of user_id; `then` is what joined becomes  *)
(* when the request succeeds.                                               *)
RoomRequest(user_id, request, then) ==
    LET h == handle_request(server, user_id, request, <<>>)
    IN  /\ server' = h.server
        /\ joined' = IF IsError(h.response.returns) THEN joined ELSE then
        /\ UNCHANGED <<conns, sessions, pc, running, refused, event, outcome, before,
                       task, dropped>>
        /\ UNCHANGED ioVars

RoomAsk(u) ==
    RoomRequest(u, <<"AskJoinRoom", 1, "txt">>,
                [joined EXCEPT !.join_requests = Append(@, u)])

RoomAccept(u) ==
    RoomRequest(1, <<"AcceptJoinRoom", 1, u>>,
                [members |-> Append(joined.members, u),
                 join_requests |-> Without(joined.join_requests, u)])

RoomReject(u) ==
    RoomRequest(1, <<"RejectJoinRoom", 1, u, "txt">>,
                [joined EXCEPT !.join_requests = Without(@, u)])

RoomLeave(u) ==
    RoomRequest(u, <<"LeaveRoom", 1>>,
                [members |-> Without(joined.members, u),
                 join_requests |-> Without(joined.join_requests, u)])

(* The guest disconnects, and connects again under the same identifier *)
RoomReconnect(u) ==
    LET r == remove_user(server, u)
    IN  /\ r.result.ok
        /\ server' = [r.server EXCEPT !.users = MapInsert(@, u, NewUser(u))]
        /\ joined' = [members |-> Without(joined.members, u),
                      join_requests |-> Without(joined.join_requests, u)]
        /\ UNCHANGED <<conns, sessions, pc, running, refused, event, outcome, before,
                       task, dropped>>
        /\ UNCHANGED ioVars

NextRoom ==
    \/ \E u \in Guests : RoomAsk(u)
    \/ \E u \in Guests : RoomAccept(u)
    \/ \E u \in Guests : RoomReject(u)
    \/ \E u \in Guests : RoomLeave(u)
    \/ \E u \in Guests : RoomReconnect(u)

SpecRoom == InitRoom /\ [][NextRoom]_vars

(* One message for each user of vec, in the order of vec *)
ToEach(vec, message) == [i \in 1 .. Len(vec) |-> <<vec[i], message>>]

(* C23: the sends of an owner's Send, of EchoFrom and of the closure of    *)
(* the room list the members in the order they were accepted, and the      *)
(* pending joiners after them in the order they asked, whoever has left,   *)
(* been rejected, been accepted or disconnected in between.                *)
InsertionOrderFanOut ==
    /\ send(server, 1, 1, "txt").result.val.sends
          = ToEach(joined.members, ReceivedBroadcast(1, "txt"))
    /\ \A from \in Range(joined.members) :
          echo_from(server, 1, 1, from, "txt").result.val.sends
             = ToEach(Without(joined.members, from), ReceivedBroadcast(1, "txt"))
    /\ close_room(server, 1).result.val.sends
          = ToEach(joined.members \o joined.join_requests, RoomClosed(1))

-----------------------------------------------------------------------------
(* The session specification follows the task of each Session step by      *)
(* step: the write of the Welcome, the two branches of the select! loop of  *)
(* UserHandle::run, and the send of Disconnected when run has returned.   *)
(* A line is the sequence of its fields, what Parts::of splits it into.    *)

(* response.rs : INVALID_REQUEST *)
INVALID_REQUEST == ErrorMsg("InvalidRequest")

(* The lines a connection sends in the session specification: three that   *)
(* parse, QUIT, and one line for each way a line can be malformed           *)
WireLines ==
    {<<"CREATE_GAME", "txt">>, <<"LEAVE_GAME", "1">>, <<"JOIN_GAME", "+1", "txt">>,
     <<"QUIT">>,
     <<"BOGUS">>, <<"LEAVE_GAME">>, <<"LEAVE_GAME", "-1">>,
     <<"LEAVE_GAME", "1", "txt">>}

(* The lines the Sessions read, all together, and the connections the     *)
(* accept loop takes                                                       *)
MaxRead == 2
MaxTasks == 2

(* str::parse::<u32> : decimal digits after an optional + sign, the value   *)
(* within u32.  The numerals of IDs are the ones the lines here carry.      *)
ParseU32(field) ==
    IF \E n \in IDs : field \in {ToString(n), "+" \o ToString(n)}
    THEN Some(CHOOSE n \in IDs : field \in {ToString(n), "+" \o ToString(n)})
    ELSE None

(* Parts::take_string and Parts::take_int on the i-th field after the verb *)
take_string(parts, i) == IF Len(parts) < i THEN None ELSE Some(parts[i])

take_int(parts, i) == IF Len(parts) < i THEN None ELSE ParseU32(parts[i])

(* done that does not look for fields left over *)
done_lenient(parts, taken, request) == Some(request)

(* Parts::done : the request, if no field is left after those taken *)
done(parts, taken, request) == IF Len(parts) = taken THEN Some(request) ELSE None

(* An arm of parse: kinds tells how each field is taken; a field that is   *)
(* missing or does not parse makes the ? operator return None.              *)
parse_arm(name, kinds, parts) ==
    LET fields == [i \in 1 .. Len(kinds) |->
                      IF kinds[i] = "int" THEN take_int(parts, i)
                      ELSE take_string(parts, i)]
    IN  IF \E i \in 1 .. Len(kinds) : fields[i] = None THEN None
        ELSE done(parts, Len(kinds),
                  <<name>> \o [i \in 1 .. Len(kinds) |-> fields[i][1]])

(* request.rs : parse *)
parse(line) ==
    LET parts == Tail(line)
    IN  CASE line[1] = "LIST_OPEN_GAMES" -> parse_arm("ListRooms", <<>>, parts)
          [] line[1] = "PING" -> parse_arm("Ping", <<"int">>, parts)
          [] line[1] = "CREATE_GAME" -> parse_arm("CreateRoom", <<"string">>, parts)
          [] line[1] = "SET_OWNER" -> parse_arm("SetOwner", <<"int", "int">>, parts)
          [] line[1] = "JOIN_GAME" -> parse_arm("AskJoinRoom", <<"int", "string">>, parts)
          [] line[1] = "LEAVE_GAME" -> parse_arm("LeaveRoom", <<"int">>, parts)
          [] line[1] = "ACCEPT_JOIN" -> parse_arm("AcceptJoinRoom", <<"int", "int">>, parts)
          [] line[1] = "REJECT_JOIN" ->
                parse_arm("RejectJoinRoom", <<"int", "int", "string">>, parts)
          [] line[1] = "SEND" -> parse_arm("Send", <<"int", "string">>, parts)
          [] line[1] = "SEND_TO" -> parse_arm("SendTo", <<"int", "int", "string">>, parts)
          [] line[1] = "ECHO_FROM" ->
                parse_arm("EchoFrom", <<"int", "int", "string">>, parts)
          [] line[1] = "QUIT" -> parse_arm("Quit", <<>>, parts)
          [] OTHER -> None

(* a Session that takes QUIT for a request like any other *)
is_quit_never(request) == FALSE

(* Request::is_quit *)
is_quit(request) == request[1] = "Quit"

(* The number of lines the Sessions of us have read *)
RECURSIVE LinesRead(_)
LinesRead(us) ==
    IF us = {} THEN 0
    ELSE LET v == CHOOSE v \in us : TRUE
         IN  Len(task[v].lines) + LinesRead(us \ {v})

(* The task of a Session as Dispatcher::run spawns it: about to write the  *)
(* Welcome, its socket open, no line read yet                              *)
NewTask == [pc |-> "welcome", socket |-> "open", lines |-> <<>>]

(* a task that goes back into its loop when it has sent Disconnected *)
after_disconnect_loops == "loop"

(* Where the task stands when it has sent Disconnected: at its end *)
after_disconnect == "done"

(* The peer closes the connection, or the connection breaks: from now on a *)
(* read finds the end of the stream or an error and a write can fail.      *)
PeerClose(u) ==
    /\ pc = "recv"
    /\ task[u].pc \in {"welcome", "loop"}
    /\ task[u].socket = "open"
    /\ task' = [task EXCEPT ![u].socket = "closed"]
    /\ UNCHANGED <<server, conns, sessions, pc, running, refused, event, outcome,
                   before, joined, dropped>>
    /\ UNCHANGED ioVars

(* UserHandle::run : the Welcome is written, and the loop begins, or the   *)
(* write fails and run returns the error.                                  *)
SessionWelcome(u) ==
    /\ pc = "recv"
    /\ task[u].pc = "welcome"
    /\ \/ /\ written' = [written EXCEPT ![u] = Append(@, Welcome(u))]
          /\ task' = [task EXCEPT ![u].pc = "loop"]
       \/ /\ task[u].socket = "closed"
          /\ task' = [task EXCEPT ![u].pc = "exited"]
          /\ UNCHANGED written
    /\ UNCHANGED <<server, conns, sessions, pc, running, refused, event, outcome,
                   before, joined, dropped, in_, accepting, forwarded, arrived, applied, sent>>

(* UserHandle::run, the inbound branch, with a line: QUIT ends the loop, a *)
(* request is sent to the Dispatcher, and a line that does not parse is    *)
(* answered with INVALID_REQUEST; a send or a write that fails ends run.   *)
SessionLine(u) ==
    /\ pc = "recv"
    /\ task[u].pc = "loop"
    /\ LinesRead(DOMAIN task) < MaxRead
    /\ \E line \in WireLines :
          LET request == parse(line)
              read == [task EXCEPT ![u].lines = Append(@, line)]
          IN  IF request = None
              THEN /\ UNCHANGED <<in_, arrived, forwarded>>
                   /\ \/ /\ written' = [written EXCEPT ![u] = Append(@, INVALID_REQUEST)]
                         /\ task' = read
                      \/ /\ task[u].socket = "closed"
                         /\ task' = [read EXCEPT ![u].pc = "exited"]
                         /\ UNCHANGED written
              ELSE IF is_quit(request[1]) \/ ~running
              THEN /\ task' = [read EXCEPT ![u].pc = "exited"]
                   /\ UNCHANGED <<in_, arrived, forwarded, written>>
              ELSE /\ in_' = inbound_send(in_, <<"Request", u, request[1]>>)
                   /\ arrived' = Append(arrived, <<"Request", u, request[1]>>)
                   /\ forwarded' = [forwarded EXCEPT ![u] = Append(@, request[1])]
                   /\ task' = read
                   /\ UNCHANGED written
    /\ UNCHANGED <<server, conns, sessions, pc, running, refused, event, outcome,
                   before, joined, dropped, accepting, applied, sent>>

(* UserHandle::run, the inbound branch, at the end of the stream or with a *)
(* read error: the loop ends.                                              *)
SessionEOF(u) ==
    /\ pc = "recv"
    /\ task[u].pc = "loop"
    /\ task[u].socket = "closed"
    /\ task' = [task EXCEPT ![u].pc = "exited"]
    /\ UNCHANGED <<server, conns, sessions, pc, running, refused, event, outcome,
                   before, joined, dropped>>
    /\ UNCHANGED ioVars

(* UserHandle::run, the outbound branch: the next message of the queue is  *)
(* written, and a write that fails ends run; a queue that is closed, its   *)
(* Sender dropped with the Dispatcher, ends the loop.                      *)
SessionDeliver(u) ==
    /\ task[u].pc = "loop"
    /\ \/ /\ SessionReceive(u)
          /\ \/ /\ written' = [written EXCEPT ![u] = Append(@, Head(conns[u]))]
                /\ UNCHANGED task
             \/ /\ task[u].socket = "closed"
                /\ task' = [task EXCEPT ![u].pc = "exited"]
                /\ UNCHANGED written
       \/ /\ pc = "recv"
          /\ ~running
          /\ u \in DOMAIN conns => conns[u] = <<>>
          /\ task' = [task EXCEPT ![u].pc = "exited"]
          /\ UNCHANGED <<server, conns, sessions, pc, running, refused, event,
                         outcome, before, written>>
    /\ UNCHANGED <<in_, accepting, forwarded, arrived, applied, sent, joined, dropped>>

(* The spawned task, after run has returned: it sends Disconnected and     *)
(* returns what run returned.                                              *)
SessionDisconnect(u) ==
    /\ pc = "recv"
    /\ task[u].pc = "exited"
    /\ in_' = inbound_send(in_, <<"Disconnected", u>>)
    /\ arrived' = Append(arrived, <<"Disconnected", u>>)
    /\ task' = [task EXCEPT ![u].pc = after_disconnect]
    /\ UNCHANGED <<server, conns, sessions, pc, running, refused, event, outcome,
                   before, joined, dropped, accepting, forwarded, applied, sent, written>>

(* Dispatcher::run : one turn of the loop; for a connection it accepts it  *)
(* spawns the task of the Session.                                         *)
DispatcherServe ==
    /\ DispatcherLoop(FALSE)
    /\ task' = IF event'[1] = "Connected" /\ outcome' # None
               THEN MapInsert(task, outcome'[1], NewTask)
               ELSE task
    /\ UNCHANGED <<joined, dropped>>

(* start_server : the accept loop *)
SessionAccept == AcceptUpTo(MaxTasks)

NextSession ==
    \/ SessionAccept
    \/ \E u \in DOMAIN task : PeerClose(u)
    \/ \E u \in DOMAIN task : SessionWelcome(u)
    \/ \E u \in DOMAIN task : SessionLine(u)
    \/ \E u \in DOMAIN task : SessionEOF(u)
    \/ \E u \in DOMAIN task : SessionDeliver(u)
    \/ \E u \in DOMAIN task : SessionDisconnect(u)
    \/ DispatcherServe
    \/ EndOfIteration

SpecSession == Init /\ [][NextSession]_vars

(* The identifiers add_user gives the Sessions of the session specification *)
TaskIds == 1 .. MaxTasks

(* The scheduling the session specification relies on: the executor runs    *)
(* every task that can take a step, the Dispatcher as well as each Session, *)
(* and select! polls the branch of the socket whenever the loop comes round. *)
SessionFairness ==
    /\ WF_vars(DispatcherServe)
    /\ WF_vars(EndOfIteration)
    /\ \A u \in TaskIds :
          /\ WF_vars(u \in DOMAIN task /\ SessionWelcome(u))
          /\ WF_vars(u \in DOMAIN task /\ SessionEOF(u))
          /\ WF_vars(u \in DOMAIN task /\ SessionDisconnect(u))

SpecSessionLive == SpecSession /\ SessionFairness

(* The events the task of u has sent to the Dispatcher, in order *)
EventsOf(u) ==
    SelectSeq(arrived, LAMBDA ev : IF ev[1] = "Connected" THEN FALSE ELSE ev[2] = u)

(* The number of Disconnected events the task of u has sent *)
DisconnectsOf(u) ==
    Len(SelectSeq(arrived, LAMBDA ev : ev = <<"Disconnected", u>>))

(* The number of elements of vec that are v *)
Count(vec, v) == Len(SelectSeq(vec, LAMBDA w : w = v))

(* C21: once the connection of a Session is closed or broken (the end of    *)
(* the stream, a read error, a failed write), the Session in the end sends  *)
(* Disconnected(u) and the Dispatcher in the end removes u from the Server *)
(* and from the map of outbound queues, which frees a slot under           *)
(* max_connections.                                                        *)
DisconnectCleanup ==
    /\ \A u \in TaskIds :
          (u \in DOMAIN task /\ task[u].socket = "closed")
             ~> (/\ DisconnectsOf(u) = 1
                 /\ u \notin DOMAIN server.users
                 /\ u \notin DOMAIN conns
                 /\ Cardinality(DOMAIN server.users) < MaxConnections)
    /\ [](/\ DOMAIN task \subseteq TaskIds
          /\ Handled("Disconnected")
                => /\ event[2] \notin DOMAIN server.users
                   /\ event[2] \notin DOMAIN conns)

(* A Session whose peer closed the connection after the Welcome has been   *)
(* cleaned up                                                               *)
DisconnectCleanupWitness ==
    \E u \in DOMAIN task :
        /\ task[u].socket = "closed"
        /\ written[u] # <<>>
        /\ DisconnectsOf(u) = 1
        /\ u \notin DOMAIN server.users
        /\ u \notin DOMAIN conns

(* What holds of the Disconnected events in every state *)
DisconnectedOnce ==
    \A u \in DOMAIN task :
        /\ DisconnectsOf(u) = (IF task[u].pc = "done" THEN 1 ELSE 0)
        /\ task[u].pc = "done"
              => /\ EventsOf(u)[Len(EventsOf(u))] = <<"Disconnected", u>>
                 /\ Len(EventsOf(u)) = Len(forwarded[u]) + 1

(* What holds of every step: a task that has sent Disconnected writes      *)
(* nothing to its socket, takes nothing from its queue, sends nothing      *)
DisconnectedLast ==
    \A u \in DOMAIN task :
        task[u].pc = "done"
           => /\ written'[u] = written[u]
              /\ forwarded'[u] = forwarded[u]
              /\ task'[u] = task[u]
              /\ (u \in DOMAIN conns /\ u \in DOMAIN conns')
                    => Len(conns'[u]) >= Len(conns[u])

(* C25: every Session that was spawned sends exactly one Disconnected      *)
(* event however its loop ends; it sends it when the loop has ended, after *)
(* every Request it forwarded, and after it the Session writes nothing to  *)
(* the socket and takes nothing from its outbound queue.                   *)
DisconnectedOnceAndLast ==
    /\ []DisconnectedOnce
    /\ [][DisconnectedLast]_vars
    /\ \A u \in TaskIds :
          (u \in DOMAIN task /\ task[u].pc = "exited") ~> (DisconnectsOf(u) = 1)

(* A Session forwarded a request, its connection closed before it wrote    *)
(* every message of its queue, and it has sent its Disconnected            *)
DisconnectedOnceAndLastWitness ==
    \E u \in DOMAIN task :
        /\ task[u].pc = "done"
        /\ forwarded[u] # <<>>
        /\ task[u].socket = "closed"
        /\ DisconnectsOf(u) = 1
        /\ Len(sent[u]) > Len(written[u]) - 1

(* C28: a Session that reads QUIT leaves its loop: it forwards no Request  *)
(* for that line, reads no line after it, and sends Disconnected, and the  *)
(* Dispatcher removes the user as it does after a socket close.  A Quit    *)
(* that reaches handle_request gets the empty Response and changes nothing. *)
QuitConsumed ==
    /\ \A u \in DOMAIN task :
          LET lines == task[u].lines
          IN  /\ \A i \in 1 .. Len(lines) :
                    lines[i] = <<"QUIT">>
                       => /\ i = Len(lines)
                          /\ task[u].pc \in {"exited", "done"}
                          /\ Len(forwarded[u]) < Len(lines)
              /\ \A i \in 1 .. Len(forwarded[u]) : forwarded[u][i][1] # "Quit"
              /\ <<"Request", u, <<"Quit">>>> \notin Range(arrived)
              /\ (Handled("Disconnected") /\ event[2] = u)
                    => /\ outcome.ok
                       /\ server = remove_user(before.server, u).server
                       /\ u \notin DOMAIN server.users
                       /\ u \notin DOMAIN conns
    /\ \A u \in DOMAIN server.users :
          handle_request(server, u, <<"Quit">>, <<>>)
             = [server |-> server, response |-> ResponseEmpty]

(* A Session forwarded a request, read QUIT, and the Dispatcher has        *)
(* removed its user                                                        *)
QuitConsumedWitness ==
    /\ Handled("Disconnected")
    /\ Len(task[event[2]].lines) = 2
    /\ task[event[2]].lines[2] = <<"QUIT">>
    /\ Len(forwarded[event[2]]) = 1
    /\ event[2] \notin DOMAIN server.users

(* The fields each verb of the protocol takes after the verb *)
Arity ==
    [verb \in {"LIST_OPEN_GAMES", "QUIT"} |-> <<>>]
    @@ [verb \in {"PING", "LEAVE_GAME"} |-> <<"int">>]
    @@ [verb \in {"CREATE_GAME"} |-> <<"string">>]
    @@ [verb \in {"SET_OWNER", "ACCEPT_JOIN"} |-> <<"int", "int">>]
    @@ [verb \in {"JOIN_GAME", "SEND"} |-> <<"int", "string">>]
    @@ [verb \in {"REJECT_JOIN", "SEND_TO", "ECHO_FROM"} |-> <<"int", "int", "string">>]

(* A decimal numeral of a non-negative 32-bit integer *)
IsU32(field) == \E n \in IDs : field = ToString(n) \/ field = "+" \o ToString(n)

(* A line with an unknown verb, a field missing, an integer field that is  *)
(* no such integer, or fields beyond those of its verb                     *)
Malformed(line) ==
    \/ line[1] \notin DOMAIN Arity
    \/ Len(line) - 1 < Len(Arity[line[1]])
    \/ Len(line) - 1 > Len(Arity[line[1]])
    \/ \E i \in 1 .. Len(Arity[line[1]]) :
          Arity[line[1]][i] = "int" /\ ~IsU32(line[i + 1])

(* The last line the Session of u read in this step, a malformed one *)
ReadsMalformed(u) ==
    /\ u \in DOMAIN task
    /\ Len(task'[u].lines) = Len(task[u].lines) + 1
    /\ Malformed(task'[u].lines[Len(task'[u].lines)])

(* The step answers the line with one INVALID_REQUEST and the loop goes on *)
AnswersInvalid(u) ==
    /\ written'[u] = Append(written[u], INVALID_REQUEST)
    /\ task'[u].pc = "loop"

(* The lines of u that are well-formed requests other than QUIT have all   *)
(* been forwarded, and nothing else has                                    *)
ForwardsWellFormed(u) ==
    /\ Len(forwarded[u])
          = Len(SelectSeq(task[u].lines,
                          LAMBDA line : ~Malformed(line) /\ line # <<"QUIT">>))
    /\ Len(EventsOf(u)) = Len(forwarded[u]) + DisconnectsOf(u)

(* C29 as claimed: every malformed line makes the Session write one        *)
(* INVALID_REQUEST, forward nothing, leave the Server alone and go on.     *)
InvalidLinesAsClaimed ==
    [][\A u \in IDs :
          ReadsMalformed(u)
             => /\ AnswersInvalid(u)
                /\ in_' = in_
                /\ server' = server]_vars

(* C29: a malformed line makes the Session forward nothing and leave the   *)
(* Server alone; the Session writes one INVALID_REQUEST and stays in its   *)
(* loop, so that the well-formed lines that follow are forwarded, unless   *)
(* that write fails on a closed connection, which ends the Session.        *)
InvalidLinesAnsweredLocally ==
    /\ [](\A u \in DOMAIN task : ForwardsWellFormed(u))
    /\ [][\A u \in IDs :
             ReadsMalformed(u)
                => /\ in_' = in_
                   /\ server' = server
                   /\ \/ AnswersInvalid(u)
                      \/ /\ task[u].socket = "closed"
                         /\ written'[u] = written[u]
                         /\ task'[u].pc = "exited"]_vars

(* A Session answered a line with a field too many and then forwarded the  *)
(* well-formed line that followed, which the Dispatcher has handled        *)
InvalidLinesAnsweredLocallyWitness ==
    /\ HandledRequest("CreateRoom")
    /\ task[Caller].lines = <<(<<"LEAVE_GAME", "1", "txt">>), (<<"CREATE_GAME", "txt">>)>>
    /\ Count(written[Caller], INVALID_REQUEST) = 1
    /\ forwarded[Caller] = <<(<<"CreateRoom", "txt">>)>>
    /\ task[Caller].pc = "loop"

-----------------------------------------------------------------------------
(* The reconnect specification lets a user be removed while messages wait  *)
(* in its outbound queue, and runs until identifiers are issued again.  It *)
(* takes the events as Spec does, without the inbound queue.  sent and     *)
(* written keep, for the present holder of an identifier, what the         *)
(* Dispatcher sent to its queue and what its Session took from it; dropped *)
(* keeps what the queue of the user removed last held at its removal.      *)

(* The messages the Dispatcher sends to the queue of one holder *)
MaxSent == 2

SentBelowBound == \A u \in DOMAIN conns : Len(sent[u]) < MaxSent

(* The connections open at a time *)
MaxLive == 2

(* The requests the Sessions of the reconnect specification forward: one   *)
(* that is answered to the caller, one that sends to another user          *)
ReuseRequests(s) ==
    {<<"CreateRoom", data>> : data \in Texts}
    \cup {<<"AskJoinRoom", r, msg>> : r \in DOMAIN s.rooms, msg \in Texts}

(* Event::Connected : Dispatcher::add_user makes a new channel *)
ReuseConnected ==
    /\ Cardinality(sessions) < MaxLive
    /\ Connected
    /\ sent' = IF outcome' = None THEN sent ELSE MapInsert(sent, outcome'[1], <<>>)
    /\ written' = IF outcome' = None THEN written
                  ELSE MapInsert(written, outcome'[1], <<>>)
    /\ UNCHANGED dropped

(* Event::Request *)
ReuseRequest(user_id, request) ==
    /\ SentBelowBound
    /\ HandleRequest(user_id, request)
    /\ sent' = [u \in DOMAIN sent |->
                  IF u \in DOMAIN conns
                  THEN sent[u] \o Deliveries(user_id, outcome', u)
                  ELSE sent[u]]
    /\ UNCHANGED <<written, dropped>>

(* Event::Disconnected : the Receiver that came with the event is dropped, *)
(* and with it whatever the queue still held                               *)
ReuseDisconnected(user_id) ==
    /\ Disconnected(user_id)
    /\ dropped' = MapInsert(<<>>, user_id, conns[user_id])
    /\ sent' = MapRemove(sent, user_id)
    /\ written' = MapRemove(written, user_id)

ReuseStep ==
    /\ running /\ pc = "recv"
    /\ before' = Snapshot(server, conns, sessions)
    /\ UNCHANGED <<in_, accepting, forwarded, arrived, applied, task, joined>>
    /\ \/ ReuseConnected
       \/ \E user_id \in sessions : \E request \in ReuseRequests(server) :
             ReuseRequest(user_id, request)
       \/ \E user_id \in sessions : ReuseDisconnected(user_id)

(* UserHandle::run, the outbound branch *)
ReuseReceive(u) ==
    /\ SessionReceive(u)
    /\ written' = [written EXCEPT ![u] = Append(@, Head(conns[u]))]
    /\ UNCHANGED <<in_, accepting, forwarded, arrived, applied, sent>>
    /\ UNCHANGED auxVars

NextReuse ==
    \/ ReuseStep
    \/ EndOfIteration
    \/ \E u \in sessions : ReuseReceive(u)

SpecReuse == Init /\ [][NextReuse]_vars

-----------------------------------------------------------------------------
(* C31: after every event the Dispatcher has handled, the identifiers with *)
(* an outbound queue are the identifiers of the users map; the queue made  *)
(* for a connecting user is new and empty, also when its identifier was    *)
(* held before; and what the Session of the present holder has taken from  *)
(* the queue, followed by what still waits in it, is what the Dispatcher   *)
(* sent to this holder, so nothing sent to an earlier holder reaches it.   *)
QueueMapMirrorsUsers ==
    /\ DOMAIN conns = DOMAIN server.users
    /\ (Handled("Connected") /\ outcome # None) =>
          /\ outcome[1] \notin DOMAIN before.conns
          /\ conns[outcome[1]] = <<>>
    /\ DOMAIN sent = DOMAIN conns
    /\ \A u \in DOMAIN conns : written[u] \o conns[u] = sent[u]

(* An identifier whose last holder was removed with messages waiting is    *)
(* held again, and its new holder has taken a message from its own queue   *)
QueueMapMirrorsUsersWitness ==
    \E u \in DOMAIN conns :
        /\ u \in DOMAIN dropped
        /\ dropped[u] # <<>>
        /\ written[u] # <<>>

====
